---- MODULE Spec2Model ----
(***************************************************************************)
(* FloState backend: the activity store (activities, likes, comments,      *)
(* follows) behind the REST handlers of routes/activities.ts, the          *)
(* interaction routes and the profile routes, together with the row level  *)
(* security policies of migrations/003_rls_policies.sql.                   *)
(*                                                                         *)
(* A handler is one action: it resolves the caller, picks the store        *)
(* client (the caller's RLS-bound client, or supabaseAdmin), runs its      *)
(* queries against the tables and leaves the request in req and the        *)
(* response in resp, where they stay until Deliver hands the response to   *)
(* the caller; the next request is served after that.                      *)
(***************************************************************************)
EXTENDS Integers, Naturals, Sequences, FiniteSets, TLC

(* ---------- bounds ---------- *)
NumUsers == 2
MaxActivities == 2
MaxComments == 1
MaxTime == 2
NumDays == 3
NumProcs == 2
MaxShares == 2

(* ---------- program constants ---------- *)
DefaultPage == 1
DefaultLimit == 20
LimitCap == 50
MinDuration == 1
MinFocus == 1
MaxFocus == 10
MinCommentLen == 1
MaxCommentLen == 1000
DayHours == 24          \* 86400000 ms, the clock counts hours
MinutesPerHour == 60
DefaultCommentLimit == 50
CommentLimitCap == 100

Users == 1..NumUsers
NoUser == 0
ActivityIds == 1..MaxActivities
CommentIds == 1..MaxComments
NoId == 0
NullFocus == 0
Days == 1..NumDays
Procs == 1..NumProcs
Names == 1..(NumUsers + 1)
NoName == 0

VARIABLES
    serviceKey,   \* SUPABASE_SERVICE_ROLE_KEY is set in the environment
    now,          \* the store's clock (NOW())
    activities,   \* public.activities rows
    likes,        \* public.likes rows
    comments,     \* public.comments rows
    follows,      \* public.follows rows
    req,          \* the request last served
    resp,         \* its response
    walk,         \* a client paging through the feed
    zone,         \* the server's local calendar: the length of each day in hours
    profiles,     \* public.profiles rows: the username of each user
    pending,      \* handlers suspended at an await, one slot per connection
    shareLog      \* per activity, the share requests answered with success

vars == <<serviceKey, now, activities, likes, comments, follows, req, resp, walk,
          zone, profiles, pending, shareLog>>
store == <<serviceKey, now, zone, profiles, activities, likes, comments, follows>>
inflight == <<pending, shareLog>>

(* ---------- small helpers ---------- *)
Min(a, b) == IF a < b THEN a ELSE b

LeastFree(ids, used) == CHOOSE i \in ids \ used : \A j \in ids \ used : i <= j

(* ---------- the server's local calendar ---------- *)
(* The clock counts hours from the first local midnight of the window.   *)
(* A calendar day lasts 23, 24 or 25 hours (daylight saving changes);    *)
(* days before the window last 24 hours.                                  *)
DayLengths == {DayHours - 1, DayHours, DayHours + 1}
\* at most one daylight saving change falls in the window
Zones ==
    {z \in [Days -> DayLengths] : Cardinality({d \in Days : z[d] # DayHours}) <= 1}
StandardZone == [d \in Days |-> DayHours]

\* the instant of local midnight at the start of day d: new Date(dateString)
RECURSIVE Midnight(_, _)
Midnight(z, d) ==
    IF d <= 1 THEN (d - 1) * DayHours ELSE Midnight(z, d - 1) + z[d - 1]

WindowEnd(z) == Midnight(z, NumDays + 1)

\* new Date(t).toLocaleDateString(): the local calendar date of instant t
toLocaleDateString(z, t) ==
    IF t < 0 THEN 0 - ((0 - t - 1) \div DayHours)
    ELSE CHOOSE d \in Days : Midnight(z, d) <= t /\ t < Midnight(z, d + 1)

\* [...new Set(dates)].sort((a, b) => new Date(b) - new Date(a))
RECURSIVE SortDatesDescending(_, _)
SortDatesDescending(z, dates) ==
    IF dates = {} THEN <<>>
    ELSE LET top == CHOOSE d \in dates :
                        \A e \in dates : Midnight(z, d) >= Midnight(z, e)
         IN  <<top>> \o SortDatesDescending(z, dates \ {top})

\* profile routes, lines 36-47: the loop over the sorted dates
RECURSIVE StreakLoop(_, _, _, _)
StreakLoop(z, dates, i, streak) ==
    IF i > Len(dates) THEN streak
    ELSE LET currentDate == Midnight(z, dates[i - 1])
             prevDate == Midnight(z, dates[i])
             diffDays == (currentDate - prevDate) \div DayHours
         IN  IF diffDays = 1 THEN StreakLoop(z, dates, i + 1, streak + 1) ELSE streak

\* profile routes, lines 20-50; stamps are the created_at of the rows
calculateStreak(stamps, z, clock) ==
    IF stamps = {} THEN 0
    ELSE LET dates == SortDatesDescending(z, {toLocaleDateString(z, t) : t \in stamps})
             today == toLocaleDateString(z, clock)
             yesterday == toLocaleDateString(z, clock - DayHours)
         IN  IF dates[1] # today /\ dates[1] # yesterday THEN 0
             ELSE StreakLoop(z, dates, 2, 1)

(* ---------- identity resolution (middleware/auth.ts) ---------- *)
(* A credential is absent, a bearer token that fails verification, or a   *)
(* bearer token of user u.                                                *)
Credentials ==
    {[t |-> "none", u |-> NoUser], [t |-> "bad", u |-> NoUser]}
        \cup {[t |-> "ok", u |-> u] : u \in Users}

verifyToken(cred) == IF cred.t = "ok" THEN cred.u ELSE NoUser

\* optionalAuth: req.user is set only when a bearer token verifies.
optionalAuth(cred) ==
    IF cred.t # "none" /\ verifyToken(cred) # NoUser THEN verifyToken(cred) ELSE NoUser

\* the middleware without the `if (!user)` test: any bearer token passes
requireAuth_NoVerify(cred) ==
    IF cred.t = "none" THEN [ok |-> FALSE, user |-> NoUser]
    ELSE [ok |-> TRUE, user |-> verifyToken(cred)]

\* requireAuth: 401 unless a bearer token verifies.
requireAuth(cred) ==
    IF cred.t = "none" THEN [ok |-> FALSE, user |-> NoUser]
    ELSE IF verifyToken(cred) = NoUser THEN [ok |-> FALSE, user |-> NoUser]
    ELSE [ok |-> TRUE, user |-> verifyToken(cred)]

(* ---------- store clients (lib/supabase.ts) ---------- *)
\* createUserClient: anon key plus the caller's JWT; RLS applies with
\* auth.uid() = the caller.
createUserClient(u) == [rls |-> TRUE, uid |-> u]

\* supabaseAdmin: the service role key bypasses RLS; when the key is not
\* configured the client falls back to the anon key (RLS, auth.uid() NULL).
supabaseAdmin == [rls |-> ~serviceKey, uid |-> NoUser]

\* `req.supabase || supabaseAdmin`
ClientOf(userId) == IF userId # NoUser THEN createUserClient(userId) ELSE supabaseAdmin

(* ---------- row level security (003_rls_policies.sql) ---------- *)
\* SQL equality: NULL = x is not true.
SqlEq(x, y) == x # NoUser /\ y # NoUser /\ x = y

\* the subquery with the two columns exchanged: the followers of auth.uid()
FollowingOf_Followers(uid, fol) ==
    {f.follower_id : f \in {g \in fol : SqlEq(g.following_id, uid)}}

\* SELECT following_id FROM follows WHERE follower_id = auth.uid()
FollowingOf(uid, fol) == {f.following_id : f \in {g \in fol : SqlEq(g.follower_id, uid)}}

\* the policy without its `user_id = auth.uid()` branch
ActivitiesSelectPolicy_NoOwner(a, uid, fol) ==
    \/ a.visibility = "public"
    \/ a.user_id \in FollowingOf(uid, fol)

\* "Activities are readable if public or from followed users or own"
ActivitiesSelectPolicy(a, uid, fol) ==
    \/ a.visibility = "public"
    \/ SqlEq(a.user_id, uid)
    \/ a.user_id \in FollowingOf(uid, fol)

\* "Comments are readable if activity is readable"
CommentsSelectPolicy(c, uid, acts, fol) ==
    \E a \in acts : a.id = c.activity_id /\ ActivitiesSelectPolicy(a, uid, fol)

\* rows of a table a client can read
SelectActivities(client, acts, fol) ==
    IF client.rls THEN {a \in acts : ActivitiesSelectPolicy(a, client.uid, fol)} ELSE acts

SelectComments(client, coms, acts, fol) ==
    IF client.rls THEN {c \in coms : CommentsSelectPolicy(c, client.uid, acts, fol)} ELSE coms

\* "Likes are publicly readable", "Follows are publicly readable"
SelectLikes(client, lks) == lks
SelectFollows(client, fol) == fol

(* ---------- ORDER BY and range ---------- *)
\* The store orders by created_at only; among rows with equal created_at
\* the order is the store's choice, given here by a rank of the row ids.
TieRanks(ids) == {f \in [ids -> ids] : \A i, j \in ids : f[i] = f[j] => i = j}

\* the comparison with the `ascending: false` option dropped
Before_Ascending(r, o, ascending, rank) ==
    IF r.created_at # o.created_at
    THEN r.created_at < o.created_at
    ELSE rank[r.id] <= rank[o.id]

Before(r, o, ascending, rank) ==
    IF r.created_at # o.created_at
    THEN (IF ascending THEN r.created_at < o.created_at ELSE r.created_at > o.created_at)
    ELSE rank[r.id] <= rank[o.id]

RECURSIVE OrderBy(_, _, _)
OrderBy(rows, ascending, rank) ==
    IF rows = {} THEN <<>>
    ELSE LET first == CHOOSE r \in rows : \A o \in rows : Before(r, o, ascending, rank)
         IN <<first>> \o OrderBy(rows \ {first}, ascending, rank)

\* .range(from, to): offset = from, limit = to - from + 1; the store
\* rejects a negative offset or limit, and answers an offset past the last
\* row with no rows.
Range(rows, from, to) ==
    IF from < 0 \/ to - from + 1 < 0
    THEN [error |-> TRUE, data |-> <<>>]
    ELSE [error |-> FALSE, data |-> SubSeq(rows, from + 1, Min(to + 1, Len(rows)))]

(* ---------- request parameters ---------- *)
\* A query parameter is absent, a string that does not start with a number,
\* or a string that parseInt reads as the integer v.
RawAbsent == [t |-> "absent", v |-> 0]
RawNaN == [t |-> "nan", v |-> 0]
RawInt(n) == [t |-> "int", v |-> n]

\* parseInt(raw)
parseInt(raw) == IF raw.t = "int" THEN [nan |-> FALSE, v |-> raw.v] ELSE [nan |-> TRUE, v |-> 0]

\* `parseInt(raw) || dflt`: NaN and 0 are falsy
OrDefault(parsed, dflt) == IF parsed.nan \/ parsed.v = 0 THEN dflt ELSE parsed.v

\* activities.ts:59  const page = parseInt(req.query.page) || 1
FeedPage(rawPage) == OrDefault(parseInt(rawPage), DefaultPage)

\* activities.ts:60  const limit = Math.min(parseInt(req.query.limit) || 20, 50)
FeedLimit(rawLimit) == Min(OrDefault(parseInt(rawLimit), DefaultLimit), LimitCap)

\* activities.ts:61  const filter = req.query.filter || 'global'
FeedFilter(rawFilter) == IF rawFilter = "" THEN "global" ELSE rawFilter

\* activities.ts:62  const offset = (page - 1) * limit
FeedOffset(page, limit) == (page - 1) * limit

(* ---------- responses ---------- *)
NoData == <<>>
Ok(status, data) == [status |-> status, data |-> data]
Err(status) == [status |-> status, data |-> NoData]

Request(op, viewer, id) ==
    [op |-> op, viewer |-> viewer, id |-> id,
     page |-> 0, limit |-> 0, offset |-> 0, filter |-> "", failed |-> {}]

NoRequest == Request("none", NoUser, NoId)
NoResponse == Ok(0, NoData)
Idle == req = NoRequest

(* ---------- GET /api/activities/feed ---------- *)
\* the filter test without `&& userId`
FeedCandidates_NoViewerCheck(userId, filter, acts, fol) ==
    LET supabase == ClientOf(userId)
        readable == SelectActivities(supabase, acts, fol)
    IN  IF filter = "following"
        THEN LET followingData == {f \in SelectFollows(supabase, fol) : f.follower_id = userId}
                 followingIds == {f.following_id : f \in followingData}
                 filterIds == {userId} \cup followingIds
             IN  {a \in readable : a.user_id \in filterIds}
        ELSE {a \in readable : a.visibility = "public"}

\* the following branch without `.in('user_id', filterIds)`
FeedCandidates_NoOwnerFilter(userId, filter, acts, fol) ==
    LET supabase == ClientOf(userId)
        readable == SelectActivities(supabase, acts, fol)
    IN  IF filter = "following" /\ userId # NoUser
        THEN readable
        ELSE {a \in readable : a.visibility = "public"}

\* activities.ts:81-94: the candidate set of the feed query
FeedCandidates(userId, filter, acts, fol) ==
    LET supabase == ClientOf(userId)
        readable == SelectActivities(supabase, acts, fol)
    IN  IF filter = "following" /\ userId # NoUser
        THEN LET followingData == {f \in SelectFollows(supabase, fol) : f.follower_id = userId}
                 followingIds == {f.following_id : f \in followingData}
                 filterIds == {userId} \cup followingIds
             IN  {a \in readable : a.user_id \in filterIds}
        ELSE {a \in readable : a.visibility = "public"}

\* activities.ts:67-96: order by created_at descending, then range
FeedQuery(userId, filter, offset, limit, rank, acts, fol) ==
    Range(OrderBy(FeedCandidates(userId, filter, acts, fol), FALSE, rank),
          offset, offset + limit - 1)

\* the viewer's-likes lookup without `.eq('user_id', userId)`
Aggregate_AnyUserLikes(rows, userId, acts, lks, coms, fol) ==
    LET supabase == ClientOf(userId)
        activityIds == {rows[i].id : i \in 1..Len(rows)}
        likeCounts == {l \in SelectLikes(supabase, lks) : l.activity_id \in activityIds}
        commentCounts == {c \in SelectComments(supabase, coms, acts, fol) :
                              c.activity_id \in activityIds}
        userLikes == IF userId # NoUser
                     THEN {l.activity_id : l \in {k \in SelectLikes(supabase, lks) :
                               k.activity_id \in activityIds}}
                     ELSE {}
        likeCountMap(id) == Cardinality({l \in likeCounts : l.activity_id = id})
        commentCountMap(id) == Cardinality({c \in commentCounts : c.activity_id = id})
    IN  [i \in 1..Len(rows) |->
            [like_count |-> likeCountMap(rows[i].id),
             comment_count |-> commentCountMap(rows[i].id),
             is_liked |-> rows[i].id \in userLikes] @@ rows[i]]

\* activities.ts:108-151: like/comment counts and the viewer's likes
Aggregate(rows, userId, acts, lks, coms, fol) ==
    LET supabase == ClientOf(userId)
        activityIds == {rows[i].id : i \in 1..Len(rows)}
        likeCounts == {l \in SelectLikes(supabase, lks) : l.activity_id \in activityIds}
        commentCounts == {c \in SelectComments(supabase, coms, acts, fol) :
                              c.activity_id \in activityIds}
        userLikes == IF userId # NoUser
                     THEN {l.activity_id : l \in {k \in SelectLikes(supabase, lks) :
                               k.user_id = userId /\ k.activity_id \in activityIds}}
                     ELSE {}
        likeCountMap(id) == Cardinality({l \in likeCounts : l.activity_id = id})
        commentCountMap(id) == Cardinality({c \in commentCounts : c.activity_id = id})
    IN  [i \in 1..Len(rows) |->
            [like_count |-> likeCountMap(rows[i].id),
             comment_count |-> commentCountMap(rows[i].id),
             is_liked |-> rows[i].id \in userLikes] @@ rows[i]]

\* the tie orders the store may pick among the activity rows
ActivityRanks == TieRanks(ActivityIds)

\* activities.ts:57-158: the whole handler
FeedHandler(userId, page, limit, filter, rank) ==
    LET q == FeedQuery(userId, filter, FeedOffset(page, limit), limit, rank,
                       activities, follows)
    IN  IF q.error THEN Err(400)
        ELSE IF Len(q.data) = 0 THEN Ok(200, <<>>)
        ELSE Ok(200, Aggregate(q.data, userId, activities, likes, comments, follows))

FeedRequest(cred, rawPage, rawLimit, rawFilter) ==
    LET userId == optionalAuth(cred)
        page == FeedPage(rawPage)
        limit == FeedLimit(rawLimit)
        filter == FeedFilter(rawFilter)
    IN  /\ Idle
        /\ resp' \in {FeedHandler(userId, page, limit, filter, rank) : rank \in ActivityRanks}
        /\ req' = [op |-> "feed", viewer |-> userId, id |-> NoId, page |-> page,
                   limit |-> limit, offset |-> FeedOffset(page, limit), filter |-> filter,
                   failed |-> {}]
        /\ UNCHANGED <<store, inflight>>

GetFeed(cred, rawPage, rawLimit, rawFilter) ==
    FeedRequest(cred, rawPage, rawLimit, rawFilter) /\ UNCHANGED walk

(* ---------- GET /api/activities/:id ---------- *)
\* the handler with the like count taken over the whole likes table
ActivityHandler_CountAllLikes(userId, id, rank) ==
    LET supabase == ClientOf(userId)
        found == {a \in SelectActivities(supabase, activities, follows) : a.id = id}
    IN  IF found = {} THEN Err(404)
        ELSE
        LET activity == CHOOSE a \in found : TRUE
            commentRows == OrderBy({c \in SelectComments(supabase, comments, activities, follows) :
                                      c.activity_id = id}, TRUE, rank)
            likeCount == Cardinality(SelectLikes(supabase, likes))
            isLiked == /\ userId # NoUser
                       /\ \E l \in SelectLikes(supabase, likes) :
                              l.activity_id = id /\ l.user_id = userId
        IN  Ok(200, <<[like_count |-> likeCount,
                       comment_count |-> Len(commentRows),
                       is_liked |-> isLiked,
                       comments |-> commentRows] @@ activity>>)

\* activities.ts:209-275
ActivityHandler(userId, id, rank) ==
    LET supabase == ClientOf(userId)
        found == {a \in SelectActivities(supabase, activities, follows) : a.id = id}
    IN  IF found = {} THEN Err(404)
        ELSE
        LET activity == CHOOSE a \in found : TRUE
            commentRows == OrderBy({c \in SelectComments(supabase, comments, activities, follows) :
                                      c.activity_id = id}, TRUE, rank)
            likeCount == Cardinality({l \in SelectLikes(supabase, likes) : l.activity_id = id})
            isLiked == /\ userId # NoUser
                       /\ \E l \in SelectLikes(supabase, likes) :
                              l.activity_id = id /\ l.user_id = userId
        IN  Ok(200, <<[like_count |-> likeCount,
                       comment_count |-> Len(commentRows),
                       is_liked |-> isLiked,
                       comments |-> commentRows] @@ activity>>)

GetActivity(cred, id) ==
    LET userId == optionalAuth(cred)
    IN  /\ Idle
        /\ \E rank \in TieRanks(CommentIds) : resp' = ActivityHandler(userId, id, rank)
        /\ req' = Request("activity", userId, id)
        /\ UNCHANGED <<store, walk, inflight>>

(* ---------- store lookups that fail ---------- *)
(* A query of the store client can fail (the store is unreachable, the    *)
(* statement times out): the client then resolves to data = null and an   *)
(* error.  `failed` names the lookups of one request that fail when they  *)
(* are issued; the request records the ones that were issued.             *)
Lookups == {"follows", "activities", "likes", "comments", "userLikes"}

\* what the handler makes of `data`: `data?.map(..) || []`, `data?.forEach`,
\* `data?.length || 0`, `count || 0`, `!!data` all read null as no rows
DataOrNull(failed, lookup, rows) == IF lookup \in failed THEN {} ELSE rows

\* activities.ts:57-158 with failing lookups: the response and the lookups issued
FeedWithFaults(userId, page, limit, filter, rank, failed) ==
    LET supabase == ClientOf(userId)
        offset == FeedOffset(page, limit)
        following == filter = "following" /\ userId # NoUser
        followingData == DataOrNull(failed, "follows",
                             {f \in SelectFollows(supabase, follows) : f.follower_id = userId})
        filterIds == {userId} \cup {f.following_id : f \in followingData}
        readable == SelectActivities(supabase, activities, follows)
        candidates == IF following
                      THEN {a \in readable : a.user_id \in filterIds}
                      ELSE {a \in readable : a.visibility = "public"}
        q == Range(OrderBy(candidates, FALSE, rank), offset, offset + limit - 1)
        rows == q.data
        activityIds == {rows[i].id : i \in 1..Len(rows)}
        likeCounts == DataOrNull(failed, "likes",
                          {l \in SelectLikes(supabase, likes) : l.activity_id \in activityIds})
        commentCounts == DataOrNull(failed, "comments",
                             {c \in SelectComments(supabase, comments, activities, follows) :
                                  c.activity_id \in activityIds})
        userLikes == IF userId # NoUser
                     THEN {l.activity_id : l \in DataOrNull(failed, "userLikes",
                               {k \in SelectLikes(supabase, likes) :
                                    k.user_id = userId /\ k.activity_id \in activityIds})}
                     ELSE {}
        likeCountMap(id) == Cardinality({l \in likeCounts : l.activity_id = id})
        commentCountMap(id) == Cardinality({c \in commentCounts : c.activity_id = id})
        first == (IF following THEN {"follows"} ELSE {}) \cup {"activities"}
        second == {"likes", "comments"} \cup (IF userId # NoUser THEN {"userLikes"} ELSE {})
    IN  IF "activities" \in failed \/ q.error
        THEN [resp |-> Err(400), issued |-> first]
        ELSE IF Len(rows) = 0
        THEN [resp |-> Ok(200, <<>>), issued |-> first]
        ELSE [resp |-> Ok(200, [i \in 1..Len(rows) |->
                                   [like_count |-> likeCountMap(rows[i].id),
                                    comment_count |-> commentCountMap(rows[i].id),
                                    is_liked |-> rows[i].id \in userLikes] @@ rows[i]]),
              issued |-> first \cup second]

GetFeedWithFaults(cred, rawPage, rawLimit, rawFilter, failed) ==
    LET userId == optionalAuth(cred)
        page == FeedPage(rawPage)
        limit == FeedLimit(rawLimit)
        filter == FeedFilter(rawFilter)
    IN  /\ Idle
        /\ \E rank \in ActivityRanks :
               LET run == FeedWithFaults(userId, page, limit, filter, rank, failed)
               IN  /\ resp' = run.resp
                   /\ req' = [op |-> "feed", viewer |-> userId, id |-> NoId, page |-> page,
                              limit |-> limit, offset |-> FeedOffset(page, limit),
                              filter |-> filter, failed |-> failed \cap run.issued]
        /\ UNCHANGED <<store, walk, inflight>>

\* activities.ts:209-275 with failing lookups
ActivityWithFaults(userId, id, rank, failed) ==
    LET supabase == ClientOf(userId)
        found == {a \in SelectActivities(supabase, activities, follows) : a.id = id}
        commentRows == OrderBy(DataOrNull(failed, "comments",
                           {c \in SelectComments(supabase, comments, activities, follows) :
                                c.activity_id = id}), TRUE, rank)
        likeCount == Cardinality(DataOrNull(failed, "likes",
                         {l \in SelectLikes(supabase, likes) : l.activity_id = id}))
        isLiked == /\ userId # NoUser
                   /\ DataOrNull(failed, "userLikes",
                          {l \in SelectLikes(supabase, likes) :
                               l.activity_id = id /\ l.user_id = userId}) # {}
        second == {"likes", "comments"} \cup (IF userId # NoUser THEN {"userLikes"} ELSE {})
    IN  IF "activities" \in failed \/ found = {}
        THEN [resp |-> Err(404), issued |-> {"activities"}]
        ELSE [resp |-> Ok(200, <<[like_count |-> likeCount,
                                  comment_count |-> Len(commentRows),
                                  is_liked |-> isLiked,
                                  comments |-> commentRows]
                                 @@ (CHOOSE a \in found : TRUE)>>),
              issued |-> {"activities"} \cup second]

GetActivityWithFaults(cred, id, failed) ==
    LET userId == optionalAuth(cred)
    IN  /\ Idle
        /\ \E rank \in TieRanks(CommentIds) :
               LET run == ActivityWithFaults(userId, id, rank, failed)
               IN  /\ resp' = run.resp
                   /\ req' = [Request("activity", userId, id) EXCEPT
                                 !.failed = failed \cap run.issued]
        /\ UNCHANGED <<store, walk, inflight>>

(* ---------- POST /api/activities ---------- *)
\* A request body: `has` names the fields present, `nulls` those sent as
\* null; the other fields carry the values of the present ones.
Body(has, nulls, category, duration, focus, visibility) ==
    [has |-> has, nulls |-> nulls, category |-> category,
     duration_minutes |-> duration, focus_level |-> focus, visibility |-> visibility,
     extra |-> 0]

\* activities.ts:9-16 createActivitySchema, field by field
CategoryValid(b) == "category" \notin b.nulls /\ b.category # ""
\* the duration field without `.min(1)`
DurationValid_NoMin(b) == "duration_minutes" \notin b.nulls

DurationValid(b) == "duration_minutes" \notin b.nulls /\ b.duration_minutes >= MinDuration
FocusValid(b) ==
    "focus_level" \in b.nulls \/ (b.focus_level >= MinFocus /\ b.focus_level <= MaxFocus)
VisibilityValid(b) == "visibility" \notin b.nulls /\ b.visibility \in {"public", "private"}

createActivitySchema(b) ==
    /\ "category" \in b.has /\ CategoryValid(b)
    /\ "duration_minutes" \in b.has /\ DurationValid(b)
    /\ "focus_level" \in b.has => FocusValid(b)
    /\ "visibility" \in b.has => VisibilityValid(b)

\* activities.ts:18 updateActivitySchema = createActivitySchema.partial()
updateActivitySchema(b) ==
    /\ "category" \in b.has => CategoryValid(b)
    /\ "duration_minutes" \in b.has => DurationValid(b)
    /\ "focus_level" \in b.has => FocusValid(b)
    /\ "visibility" \in b.has => VisibilityValid(b)

\* the row the store inserts: column defaults of 001_initial_schema.sql
\* for what the parsed body leaves out (visibility defaults in the schema)
NewActivity(id, userId, b) ==
    [id |-> id, user_id |-> userId,
     category |-> b.category,
     duration_minutes |-> b.duration_minutes,
     focus_level |-> IF "focus_level" \in b.has /\ "focus_level" \notin b.nulls
                     THEN b.focus_level ELSE NullFocus,
     visibility |-> IF "visibility" \in b.has THEN b.visibility ELSE "public",
     share_count |-> 0,
     created_at |-> now]

\* activities.ts:24-51
CreateActivity(cred, b) ==
    LET auth == requireAuth(cred)
    IN  /\ Cardinality(activities) < MaxActivities
        /\ Idle
        /\ req' = Request("createActivity", auth.user, NoId)
        /\ IF ~auth.ok
           THEN resp' = Err(401) /\ UNCHANGED activities
           ELSE IF ~createActivitySchema(b)
           THEN resp' = Err(400) /\ UNCHANGED activities
           ELSE LET row == NewActivity(LeastFree(ActivityIds, {a.id : a \in activities}),
                                       auth.user, b)
                IN  /\ activities' = activities \cup {row}
                    /\ resp' = Ok(201, <<row>>)
        /\ UNCHANGED <<serviceKey, now, zone, profiles, likes, comments, follows, walk, inflight>>

(* ---------- PATCH /api/activities/:id ---------- *)
\* the keys of createActivitySchema that the model carries
SchemaKeys == {"category", "duration_minutes", "focus_level", "visibility"}

\* a parse that keeps the keys the schema does not declare
updateActivityData_Passthrough(b) == b

\* validation.data: z.object() drops the keys the schema does not declare;
\* .partial() makes every key optional, and an absent key stays absent
\* (the default of visibility is not applied to it)
updateActivityData(b) == [b EXCEPT !.has = @ \cap SchemaKeys]

\* .update(data): the columns named by the keys of data are set; a key
\* the model gives no value of its own carries `extra`
ApplyUpdate(a, b) ==
    [a EXCEPT
        !.category = IF "category" \in b.has THEN b.category ELSE @,
        !.duration_minutes = IF "duration_minutes" \in b.has THEN b.duration_minutes ELSE @,
        !.focus_level = IF "focus_level" \in b.has
                        THEN (IF "focus_level" \in b.nulls THEN NullFocus ELSE b.focus_level)
                        ELSE @,
        !.visibility = IF "visibility" \in b.has THEN b.visibility ELSE @,
        !.id = IF "id" \in b.has THEN b.extra ELSE @,
        !.user_id = IF "user_id" \in b.has THEN b.extra ELSE @,
        !.created_at = IF "created_at" \in b.has THEN b.extra ELSE @,
        !.share_count = IF "share_count" \in b.has THEN b.extra ELSE @]

\* activities.ts:281-314; "Users can update own activities"
UpdateActivity(cred, id, b) ==
    LET auth == requireAuth(cred)
        target == {a \in activities : a.id = id /\ a.user_id = auth.user
                                      /\ SqlEq(auth.user, a.user_id)}
    IN  /\ Idle
        /\ req' = Request("updateActivity", auth.user, id)
        /\ IF ~auth.ok
           THEN resp' = Err(401) /\ UNCHANGED activities
           ELSE IF ~updateActivitySchema(b)
           THEN resp' = Err(400) /\ UNCHANGED activities
           ELSE IF target = {}
           THEN resp' = Err(400) /\ UNCHANGED activities   \* .single() on no row
           ELSE LET old == CHOOSE a \in target : TRUE
                    new == ApplyUpdate(old, updateActivityData(b))
                IN  /\ activities' = (activities \ {old}) \cup {new}
                    /\ resp' = Ok(200, <<new>>)
        /\ UNCHANGED <<serviceKey, now, zone, profiles, likes, comments, follows, walk, inflight>>

(* ---------- unique edges in the store ---------- *)
(* likes and follows have a composite PRIMARY KEY.  A row carries `copy`, *)
(* its rank among the rows with its key, so that the tables can hold     *)
(* what an insert without the key would leave behind.                    *)
LikesWithKey(lks, activityId, userId) ==
    {l \in lks : l.activity_id = activityId /\ l.user_id = userId}

FollowsWithKey(fol, followerId, followingId) ==
    {f \in fol : f.follower_id = followerId /\ f.following_id = followingId}

\* an insert that adds a row whether or not its key is taken
InsertLike_NoPrimaryKey(lks, acts, activityId, userId) ==
    IF activityId \notin {a.id : a \in acts}
    THEN [error |-> "23503", rows |-> lks]
    ELSE [error |-> "", rows |-> lks \cup
              {[activity_id |-> activityId, user_id |-> userId,
                copy |-> Cardinality(LikesWithKey(lks, activityId, userId)) + 1]}]

\* INSERT INTO likes: foreign key on activities (23503), PRIMARY KEY
\* (activity_id, user_id) (23505)
InsertLike(lks, acts, activityId, userId) ==
    IF activityId \notin {a.id : a \in acts}
    THEN [error |-> "23503", rows |-> lks]
    ELSE IF LikesWithKey(lks, activityId, userId) # {}
    THEN [error |-> "23505", rows |-> lks]
    ELSE [error |-> "", rows |-> lks \cup
              {[activity_id |-> activityId, user_id |-> userId, copy |-> 1]}]

\* a delete that ignores whose like it is
DeleteLike_AnyUser(lks, activityId, userId) ==
    {l \in lks : l.activity_id # activityId}

\* DELETE FROM likes WHERE activity_id = .. AND user_id = ..
DeleteLike(lks, activityId, userId) ==
    lks \ LikesWithKey(lks, activityId, userId)

\* an insert that adds a row whether or not its key is taken
InsertFollow_NoPrimaryKey(fol, followerId, followingId) ==
    IF followingId \notin Users
    THEN [error |-> "23503", rows |-> fol]
    ELSE IF followerId = followingId
    THEN [error |-> "23514", rows |-> fol]
    ELSE [error |-> "", rows |-> fol \cup
              {[follower_id |-> followerId, following_id |-> followingId,
                copy |-> Cardinality(FollowsWithKey(fol, followerId, followingId)) + 1]}]

\* INSERT INTO follows: foreign key on profiles (23503),
\* CHECK (follower_id != following_id) (23514), PRIMARY KEY (follower_id, following_id) (23505)
InsertFollow(fol, followerId, followingId) ==
    IF followingId \notin Users
    THEN [error |-> "23503", rows |-> fol]
    ELSE IF followerId = followingId
    THEN [error |-> "23514", rows |-> fol]
    ELSE IF FollowsWithKey(fol, followerId, followingId) # {}
    THEN [error |-> "23505", rows |-> fol]
    ELSE [error |-> "", rows |-> fol \cup
              {[follower_id |-> followerId, following_id |-> followingId, copy |-> 1]}]

(* ---------- POST / DELETE /api/profiles/:userId/follow ---------- *)
\* profile routes, follow: lines 186-216
Follow(cred, userId) ==
    LET auth == requireAuth(cred)
        inserted == InsertFollow(follows, auth.user, userId)
    IN  /\ Idle
        /\ req' = Request("follow", auth.user, userId)
        /\ IF ~auth.ok
           THEN resp' = Err(401) /\ UNCHANGED follows
           ELSE IF auth.user = userId
           THEN resp' = Err(400) /\ UNCHANGED follows
           ELSE IF inserted.error = "23505"
           THEN resp' = Err(409) /\ UNCHANGED follows
           ELSE IF inserted.error # ""
           THEN resp' = Err(400) /\ UNCHANGED follows
           ELSE follows' = inserted.rows /\ resp' = Ok(200, <<>>)
        /\ UNCHANGED <<serviceKey, now, zone, profiles, activities, likes, comments, walk, inflight>>

\* profile routes, unfollow: lines 222-242
Unfollow(cred, userId) ==
    LET auth == requireAuth(cred)
    IN  /\ Idle
        /\ req' = Request("unfollow", auth.user, userId)
        /\ IF ~auth.ok
           THEN resp' = Err(401) /\ UNCHANGED follows
           ELSE /\ follows' = {f \in follows :
                                 ~(f.follower_id = auth.user /\ f.following_id = userId)}
                /\ resp' = Ok(200, <<>>)
        /\ UNCHANGED <<serviceKey, now, zone, profiles, activities, likes, comments, walk, inflight>>

(* ---------- POST /api/interactions/activities/:activityId/like ---------- *)
\* interaction routes, lines 17-64, served without interruption
ToggleLike(cred, activityId) ==
    LET auth == requireAuth(cred)
        \* .single(): data only when exactly one row matches
        existingLike == Cardinality(LikesWithKey(SelectLikes(createUserClient(auth.user),
                                                             likes),
                                                 activityId, auth.user)) = 1
        inserted == InsertLike(likes, activities, activityId, auth.user)
    IN  /\ Idle
        /\ req' = Request("like", auth.user, activityId)
        /\ IF ~auth.ok
           THEN resp' = Err(401) /\ UNCHANGED likes
           ELSE IF existingLike
           THEN /\ likes' = DeleteLike(likes, activityId, auth.user)
                /\ resp' = Ok(200, <<[liked |-> FALSE]>>)
           ELSE IF inserted.error # ""
           THEN resp' = Err(400) /\ UNCHANGED likes
           ELSE likes' = inserted.rows /\ resp' = Ok(200, <<[liked |-> TRUE]>>)
        /\ UNCHANGED <<serviceKey, now, zone, profiles, activities, comments, follows, walk, inflight>>

(* ---------- POST /api/interactions/activities/:activityId/comments ---------- *)
\* interaction routes, lines 9-11 commentSchema: the text by its length
commentSchema(textLen) == textLen >= MinCommentLen /\ textLen <= MaxCommentLen

\* interaction routes, lines 106-143.  The insert returns the new row
\* (.select()), so the row must also pass the comments SELECT policy.
CreateComment(cred, activityId, textLen) ==
    LET auth == requireAuth(cred)
        row == [id |-> LeastFree(CommentIds, {c.id : c \in comments}),
                activity_id |-> activityId, user_id |-> auth.user,
                text |-> textLen, created_at |-> now]
    IN  /\ Cardinality(comments) < MaxComments
        /\ Idle
        /\ req' = Request("createComment", auth.user, activityId)
        /\ IF ~auth.ok
           THEN resp' = Err(401) /\ UNCHANGED comments
           ELSE IF ~commentSchema(textLen)
           THEN resp' = Err(400) /\ UNCHANGED comments
           ELSE IF \/ activityId \notin {a.id : a \in activities}
                   \/ ~CommentsSelectPolicy(row, auth.user, activities, follows)
           THEN resp' = Err(400) /\ UNCHANGED comments
           ELSE comments' = comments \cup {row} /\ resp' = Ok(201, <<row>>)
        /\ UNCHANGED <<serviceKey, now, zone, profiles, activities, likes, follows, walk, inflight>>

(* ---------- GET /api/interactions/activities/:activityId/comments ---------- *)
\* interaction routes, lines 152-153
CommentsLimit(rawLimit) == Min(OrDefault(parseInt(rawLimit), DefaultCommentLimit), CommentLimitCap)
CommentsOffset(rawOffset) == OrDefault(parseInt(rawOffset), 0)

\* interaction routes, lines 149-179: no authentication middleware, the
\* query goes through supabaseAdmin whoever calls
CommentsHandler(activityId, limit, offset, rank) ==
    LET rows == OrderBy({c \in SelectComments(supabaseAdmin, comments, activities, follows) :
                             c.activity_id = activityId}, TRUE, rank)
        q == Range(rows, offset, offset + limit - 1)
    IN  IF q.error THEN Err(400) ELSE Ok(200, q.data)

\* the caller is recorded as the viewer of the request; the handler does
\* not look at the credential
GetComments(cred, activityId, rawLimit, rawOffset) ==
    /\ Idle
    /\ \E rank \in TieRanks(CommentIds) :
           resp' = CommentsHandler(activityId, CommentsLimit(rawLimit),
                                   CommentsOffset(rawOffset), rank)
    /\ req' = Request("comments", verifyToken(cred), activityId)
    /\ UNCHANGED <<store, walk, inflight>>

(* ---------- DELETE /api/activities/:id ---------- *)
\* DELETE FROM activities: likes and comments of the activity go with it
\* (ON DELETE CASCADE in 001_initial_schema.sql)
CascadeLikes(lks, acts) == {l \in lks : l.activity_id \in {a.id : a \in acts}}
CascadeComments(coms, acts) == {c \in coms : c.activity_id \in {a.id : a \in acts}}

\* activities.ts:320-340; "Users can delete own activities"
DeleteActivity(cred, id) ==
    LET auth == requireAuth(cred)
        target == {a \in SelectActivities(createUserClient(auth.user), activities, follows) :
                       a.id = id /\ a.user_id = auth.user /\ SqlEq(auth.user, a.user_id)}
    IN  /\ Idle
        /\ req' = Request("deleteActivity", auth.user, id)
        /\ IF ~auth.ok
           THEN resp' = Err(401) /\ UNCHANGED <<activities, likes, comments>>
           ELSE /\ activities' = activities \ target
                /\ likes' = CascadeLikes(likes, activities \ target)
                /\ comments' = CascadeComments(comments, activities \ target)
                /\ resp' = Ok(200, <<>>)
        /\ UNCHANGED <<serviceKey, now, zone, profiles, follows, walk, inflight>>

(* ---------- PATCH / DELETE /api/interactions/comments/:commentId ---------- *)
\* the rows an UPDATE or DELETE of the caller reaches: own comments
\* ("Users can update/delete own comments") that the caller can read
OwnComments(userId, commentId) ==
    {c \in SelectComments(createUserClient(userId), comments, activities, follows) :
         c.id = commentId /\ c.user_id = userId /\ SqlEq(userId, c.user_id)}

\* interaction routes, lines 185-221
UpdateComment(cred, commentId, textLen) ==
    LET auth == requireAuth(cred)
        target == OwnComments(auth.user, commentId)
    IN  /\ Idle
        /\ req' = Request("updateComment", auth.user, commentId)
        /\ IF ~auth.ok
           THEN resp' = Err(401) /\ UNCHANGED comments
           ELSE IF ~commentSchema(textLen)
           THEN resp' = Err(400) /\ UNCHANGED comments
           ELSE IF target = {}
           THEN resp' = Err(400) /\ UNCHANGED comments     \* .single() on no row
           ELSE LET old == CHOOSE c \in target : TRUE
                    new == [old EXCEPT !.text = textLen]
                IN  /\ comments' = (comments \ {old}) \cup {new}
                    /\ resp' = Ok(200, <<new>>)
        /\ UNCHANGED <<serviceKey, now, zone, profiles, activities, likes, follows, walk, inflight>>

\* interaction routes, lines 227-247
DeleteComment(cred, commentId) ==
    LET auth == requireAuth(cred)
    IN  /\ Idle
        /\ req' = Request("deleteComment", auth.user, commentId)
        /\ IF ~auth.ok
           THEN resp' = Err(401) /\ UNCHANGED comments
           ELSE /\ comments' = comments \ OwnComments(auth.user, commentId)
                /\ resp' = Ok(200, <<>>)
        /\ UNCHANGED <<serviceKey, now, zone, profiles, activities, likes, follows, walk, inflight>>

(* ---------- GET /api/profiles/:usernameOrId ---------- *)
\* the path parameter: a text with a '-' is looked up as an id, any other
\* text as a username (profile routes, lines 63-70)
ProfileKeys ==
    {[isUuid |-> TRUE, v |-> u] : u \in Users \cup {NoUser}}
        \cup {[isUuid |-> FALSE, v |-> n] : n \in Names}

\* "Profiles are publicly readable"
SelectProfiles(client, profs) == {[id |-> u, username |-> profs[u]] : u \in Users}

RECURSIVE SumDurations(_)
SumDurations(rows) ==
    IF rows = {} THEN 0
    ELSE LET a == CHOOSE r \in rows : TRUE
         IN  a.duration_minutes + SumDurations(rows \ {a})

\* Math.round(n / d) for n >= 0, d > 0: the nearest integer, halves upward
MathRound(n, d) == (2 * n + d) \div (2 * d)

\* the tenths of an hour cut off instead of rounded
TotalHoursTenths_Truncate(totalMinutes) == (totalMinutes * 10) \div MinutesPerHour

\* profile routes, line 87: Math.round((totalMinutes / 60) * 10) / 10,
\* kept in tenths of an hour
TotalHoursTenths(totalMinutes) == MathRound(totalMinutes * 10, MinutesPerHour)

\* profile routes, lines 79-88
ProfileStats(rows) ==
    [total_sessions |-> Cardinality(rows),
     total_hours |-> TotalHoursTenths(SumDurations(rows)),
     current_streak |-> calculateStreak({a.created_at : a \in rows}, zone, now)]

\* profile routes, lines 56-131
ProfileHandler(currentUserId, key) ==
    LET supabase == ClientOf(currentUserId)
        found == {p \in SelectProfiles(supabase, profiles) :
                      IF key.isUuid THEN p.id = key.v ELSE p.username = key.v}
    IN  IF Cardinality(found) # 1 THEN Err(404)
        ELSE LET profile == CHOOSE p \in found : TRUE
                 rows == {a \in SelectActivities(supabase, activities, follows) :
                              a.user_id = profile.id}
                 fol == SelectFollows(supabase, follows)
             IN  Ok(200, <<[id |-> profile.id,
                            username |-> profile.username,
                            stats |-> ProfileStats(rows),
                            follower_count |->
                                Cardinality({f \in fol : f.following_id = profile.id}),
                            following_count |->
                                Cardinality({f \in fol : f.follower_id = profile.id}),
                            is_following |->
                                /\ currentUserId # NoUser
                                /\ currentUserId # profile.id
                                /\ \E f \in fol : /\ f.follower_id = currentUserId
                                                  /\ f.following_id = profile.id]>>)

GetProfile(cred, key) ==
    LET userId == optionalAuth(cred)
    IN  /\ Idle
        /\ req' = Request("profile", userId, key.v)
        /\ resp' = ProfileHandler(userId, key)
        /\ UNCHANGED <<store, walk, inflight>>

(* ---------- GET /api/activities/user/:userId ---------- *)
\* activities.ts:168  const offset = parseInt(req.query.offset) || 0
UserActivitiesOffset(rawOffset) == OrDefault(parseInt(rawOffset), 0)

\* activities.ts:164-203.  A path parameter without a '-' is looked up as a
\* username; when no profile has it the text itself is compared with the
\* uuid column user_id, which the store refuses.
UserActivitiesHandler(viewerId, key, limit, offset, rank) ==
    LET supabase == ClientOf(viewerId)
        profile == {p \in SelectProfiles(supabase, profiles) :
                        ~key.isUuid /\ p.username = key.v}
        resolved == key.isUuid \/ Cardinality(profile) = 1
        actualUserId == IF key.isUuid THEN key.v ELSE (CHOOSE p \in profile : TRUE).id
        rows == OrderBy({a \in SelectActivities(supabase, activities, follows) :
                             a.user_id = actualUserId}, FALSE, rank)
        q == Range(rows, offset, offset + limit - 1)
    IN  IF ~resolved \/ q.error THEN Err(400) ELSE Ok(200, q.data)

GetUserActivities(cred, key, rawLimit, rawOffset) ==
    LET viewerId == optionalAuth(cred)
    IN  /\ Idle
        /\ \E rank \in ActivityRanks :
               resp' = UserActivitiesHandler(viewerId, key, FeedLimit(rawLimit),
                                             UserActivitiesOffset(rawOffset), rank)
        /\ req' = Request("userActivities", viewerId, key.v)
        /\ UNCHANGED <<store, walk, inflight>>

(* ---------- the store's clock ---------- *)
Tick ==
    /\ Idle
    /\ now < MaxTime
    /\ now' = now + 1
    /\ UNCHANGED <<serviceKey, zone, profiles, activities, likes, comments, follows,
                 req, resp, walk, inflight>>

\* the instants the clock is sampled at: the first and the last hour of
\* each day of the window
ClockStamps(z) ==
    {Midnight(z, d) : d \in Days} \cup {Midnight(z, d + 1) - 1 : d \in Days}

Advance(t) ==
    /\ Idle
    /\ t > now /\ t < WindowEnd(zone)
    /\ now' = t
    /\ UNCHANGED <<serviceKey, zone, profiles, activities, likes, comments, follows,
                 req, resp, walk, inflight>>

(* ---------- the response reaches the caller ---------- *)
Deliver ==
    /\ ~Idle
    /\ req' = NoRequest
    /\ resp' = NoResponse
    /\ UNCHANGED <<store, walk, inflight>>

(* ---------- a client paging through the feed ---------- *)
\* The client asks for pages 1, 2, 3, ... of one feed with a fixed limit
\* and stops at the first empty page; got collects the ids it was given.
IdleWalk == [active |-> FALSE, done |-> FALSE, cred |-> [t |-> "none", u |-> NoUser],
             filter |-> "", limit |-> 0, page |-> 0, got |-> <<>>]

StartWalk(cred, rawFilter, limit) ==
    /\ ~walk.active
    /\ walk' = [active |-> TRUE, done |-> FALSE, cred |-> cred, filter |-> rawFilter,
                limit |-> limit, page |-> 1, got |-> <<>>]
    /\ UNCHANGED <<store, req, resp, inflight>>

WalkPage ==
    /\ walk.active /\ ~walk.done
    /\ FeedRequest(walk.cred, RawInt(walk.page), RawInt(walk.limit), walk.filter)
    /\ walk' = [walk EXCEPT
                   !.page = @ + 1,
                   !.done = Len(resp'.data) = 0,
                   !.got = @ \o [i \in 1..Len(resp'.data) |-> resp'.data[i].id]]

EndWalk ==
    /\ walk.active /\ walk.done
    /\ walk' = IdleWalk
    /\ UNCHANGED <<store, req, resp, inflight>>

(* ---------- handlers between their store queries ---------- *)
(* A handler that awaits two store queries is served in two steps: the    *)
(* first query, whose answer is kept in `seen`, and the rest.  Other      *)
(* connections are served in between.  A slot holds the handler from its  *)
(* first query until its response has been taken.                         *)
Call(op, phase, user, id, seen, status, data, error) ==
    [op |-> op, phase |-> phase, user |-> user, id |-> id, seen |-> seen,
     status |-> status, data |-> data, error |-> error]

\* a connection with no handler in progress
NoCall == Call("none", "idle", NoUser, NoId, 0, 0, NoData, "")

Await(op, user, id, seen) == Call(op, "await", user, id, seen, 0, NoData, "")
Done(c, status, data, error) ==
    [c EXCEPT !.phase = "done", !.status = status, !.data = data, !.error = error]

\* the response is taken from the connection
Return(p) ==
    /\ pending[p].phase = "done"
    /\ pending' = [pending EXCEPT ![p] = NoCall]
    /\ UNCHANGED <<store, req, resp, walk, shareLog>>

\* interaction routes, lines 17-28: requireAuth and the existence query
LikeCheck(p, cred, activityId) ==
    LET auth == requireAuth(cred)
        \* .single(): data only when exactly one row matches
        existingLike == Cardinality(LikesWithKey(SelectLikes(createUserClient(auth.user),
                                                             likes),
                                                 activityId, auth.user)) = 1
    IN  /\ pending[p] = NoCall
        /\ pending' = [pending EXCEPT ![p] =
               IF ~auth.ok
               THEN Done(Await("like", NoUser, activityId, 0), 401, NoData, "")
               ELSE Await("like", auth.user, activityId, IF existingLike THEN 1 ELSE 0)]
        /\ UNCHANGED <<store, req, resp, walk, shareLog>>

\* interaction routes, lines 30-59: the delete or the insert, and the response
LikeWrite(p) ==
    LET c == pending[p]
        inserted == InsertLike(likes, activities, c.id, c.user)
    IN  /\ c.op = "like" /\ c.phase = "await"
        /\ IF c.seen = 1
           THEN /\ likes' = DeleteLike(likes, c.id, c.user)
                /\ pending' = [pending EXCEPT ![p] = Done(c, 200, <<[liked |-> FALSE]>>, "")]
           ELSE IF inserted.error # ""
           THEN /\ UNCHANGED likes
                /\ pending' = [pending EXCEPT ![p] = Done(c, 400, NoData, inserted.error)]
           ELSE /\ likes' = inserted.rows
                /\ pending' = [pending EXCEPT ![p] = Done(c, 200, <<[liked |-> TRUE]>>, "")]
        /\ UNCHANGED <<serviceKey, now, zone, profiles, activities, comments, follows,
                       req, resp, walk, shareLog>>

(* ---------- POST /api/interactions/activities/:activityId/share ---------- *)
\* UPDATE activities SET share_count = value WHERE id = ..: under RLS only
\* rows passing "Users can update own activities"
UpdateShareCount(client, acts, activityId, value) ==
    {IF a.id = activityId /\ (~client.rls \/ SqlEq(client.uid, a.user_id))
     THEN [a EXCEPT !.share_count = value] ELSE a : a \in acts}

SharesInFlight(id) ==
    Cardinality({p \in Procs : pending[p].op = "share" /\ pending[p].id = id
                               /\ pending[p].phase = "await"})

\* interaction routes, lines 253-267: no authentication; the count is read
ShareRead(p, activityId) ==
    LET found == {a \in SelectActivities(supabaseAdmin, activities, follows) :
                      a.id = activityId}
    IN  /\ pending[p] = NoCall
        /\ shareLog[activityId] + SharesInFlight(activityId) < MaxShares
        /\ pending' = [pending EXCEPT ![p] =
               IF Cardinality(found) # 1
               THEN Done(Await("share", NoUser, activityId, 0), 404, NoData, "")
               ELSE Await("share", NoUser, activityId,
                          (CHOOSE a \in found : TRUE).share_count)]
        /\ UNCHANGED <<store, req, resp, walk, shareLog>>

\* interaction routes, lines 269-280: the count read plus one is written
\* and echoed
ShareWrite(p) ==
    LET c == pending[p]
    IN  /\ c.op = "share" /\ c.phase = "await"
        /\ activities' = UpdateShareCount(supabaseAdmin, activities, c.id, c.seen + 1)
        /\ pending' = [pending EXCEPT ![p] =
               Done(c, 200, <<[success |-> TRUE, share_count |-> c.seen + 1]>>, "")]
        /\ shareLog' = [shareLog EXCEPT ![c.id] = @ + 1]
        /\ UNCHANGED <<serviceKey, now, zone, profiles, likes, comments, follows,
                       req, resp, walk>>

(* ---------- PATCH /api/profiles/me: the username ---------- *)
\* UPDATE profiles SET username = .. WHERE id = ..: username is UNIQUE (23505)
UpdateUsername(profs, userId, name) ==
    IF \E u \in Users : u # userId /\ profs[u] = name
    THEN [error |-> "23505", rows |-> profs]
    ELSE [error |-> "", rows |-> [profs EXCEPT ![userId] = name]]

\* profile routes, lines 137-158: requireAuth and the "is it taken" query
UsernameCheck(p, cred, name) ==
    LET auth == requireAuth(cred)
        taken == {r \in SelectProfiles(createUserClient(auth.user), profiles) :
                      r.username = name /\ r.id # auth.user}
    IN  /\ pending[p] = NoCall
        /\ pending' = [pending EXCEPT ![p] =
               IF ~auth.ok
               THEN Done(Await("username", NoUser, name, 0), 401, NoData, "")
               ELSE IF Cardinality(taken) = 1
               THEN Done(Await("username", auth.user, name, 1), 409, NoData, "")
               ELSE Await("username", auth.user, name, 0)]
        /\ UNCHANGED <<store, req, resp, walk, shareLog>>

\* profile routes, lines 160-175: the update and the response
UsernameWrite(p) ==
    LET c == pending[p]
        updated == UpdateUsername(profiles, c.user, c.id)
    IN  /\ c.op = "username" /\ c.phase = "await"
        /\ IF updated.error # ""
           THEN /\ UNCHANGED profiles
                /\ pending' = [pending EXCEPT ![p] = Done(c, 400, NoData, updated.error)]
           ELSE /\ profiles' = updated.rows
                /\ pending' = [pending EXCEPT ![p] =
                       Done(c, 200, <<[id |-> c.user, username |-> c.id]>>, "")]
        /\ UNCHANGED <<serviceKey, now, zone, activities, likes, comments, follows,
                       req, resp, walk, shareLog>>

(* ---------- reads between their store lookups ---------- *)
(* The read handlers await one lookup after the other; other requests are  *)
(* served in between.  `seen` counts the lookups answered so far and `data` *)
(* holds what the handler has collected.                                   *)
Collect(c, seen, data) == [c EXCEPT !.seen = seen, !.data = data]

\* activities.ts:209-229: optionalAuth and the activity lookup
ActivityLookup(p, cred, id) ==
    LET userId == optionalAuth(cred)
        found == {a \in SelectActivities(ClientOf(userId), activities, follows) : a.id = id}
    IN  /\ pending[p] = NoCall
        /\ pending' = [pending EXCEPT ![p] =
               IF found = {}
               THEN Done(Await("activity", userId, id, 0), 404, NoData, "")
               ELSE Collect(Await("activity", userId, id, 0), 1, <<CHOOSE a \in found : TRUE>>)]
        /\ UNCHANGED <<store, req, resp, walk, shareLog>>

\* activities.ts:231-242: the comments lookup
ActivityCommentsLookup(p) ==
    LET c == pending[p]
    IN  /\ c.op = "activity" /\ c.phase = "await" /\ c.seen = 1
        /\ \E rank \in TieRanks(CommentIds) :
               pending' = [pending EXCEPT ![p] = Collect(c, 2,
                   <<[comments |->
                         OrderBy({m \in SelectComments(ClientOf(c.user), comments,
                                                       activities, follows) :
                                      m.activity_id = c.id}, TRUE, rank)] @@ c.data[1]>>)]
        /\ UNCHANGED <<store, req, resp, walk, shareLog>>

\* activities.ts:244-248: the like count
ActivityLikesLookup(p) ==
    LET c == pending[p]
    IN  /\ c.op = "activity" /\ c.phase = "await" /\ c.seen = 2
        /\ pending' = [pending EXCEPT ![p] = Collect(c, 3,
               <<[like_count |->
                     Cardinality({l \in SelectLikes(ClientOf(c.user), likes) :
                                      l.activity_id = c.id})] @@ c.data[1]>>)]
        /\ UNCHANGED <<store, req, resp, walk, shareLog>>

\* activities.ts:250-270: the viewer's like and the response
ActivityRespond(p) ==
    LET c == pending[p]
        isLiked == /\ c.user # NoUser
                   /\ \E l \in SelectLikes(ClientOf(c.user), likes) :
                          l.activity_id = c.id /\ l.user_id = c.user
    IN  /\ c.op = "activity" /\ c.phase = "await" /\ c.seen = 3
        /\ pending' = [pending EXCEPT ![p] =
               Done(c, 200, <<[comment_count |-> Len(c.data[1].comments),
                               is_liked |-> isLiked] @@ c.data[1]>>, "")]
        /\ UNCHANGED <<store, req, resp, walk, shareLog>>

\* activities.ts:57-106: optionalAuth, the follow set and the activities query
FeedLookup(p, cred, rawPage, rawLimit, rawFilter) ==
    LET userId == optionalAuth(cred)
        limit == FeedLimit(rawLimit)
    IN  /\ pending[p] = NoCall
        /\ \E rank \in ActivityRanks :
               LET q == FeedQuery(userId, FeedFilter(rawFilter),
                                  FeedOffset(FeedPage(rawPage), limit), limit, rank,
                                  activities, follows)
               IN  pending' = [pending EXCEPT ![p] =
                       IF q.error
                       THEN Done(Await("feed", userId, NoId, 0), 400, NoData, "")
                       ELSE IF Len(q.data) = 0
                       THEN Done(Await("feed", userId, NoId, 0), 200, <<>>, "")
                       ELSE Collect(Await("feed", userId, NoId, 0), 1, q.data)]
        /\ UNCHANGED <<store, req, resp, walk, shareLog>>

\* activities.ts:111-114: the likes of the page
FeedLikesLookup(p) ==
    LET c == pending[p]
        likeCounts == SelectLikes(ClientOf(c.user), likes)
    IN  /\ c.op = "feed" /\ c.phase = "await" /\ c.seen = 1
        /\ pending' = [pending EXCEPT ![p] = Collect(c, 2,
               [i \in 1..Len(c.data) |->
                   [like_count |->
                       Cardinality({l \in likeCounts : l.activity_id = c.data[i].id})]
                   @@ c.data[i]])]
        /\ UNCHANGED <<store, req, resp, walk, shareLog>>

\* activities.ts:116-119: the comments of the page
FeedCommentsLookup(p) ==
    LET c == pending[p]
        commentCounts == SelectComments(ClientOf(c.user), comments, activities, follows)
    IN  /\ c.op = "feed" /\ c.phase = "await" /\ c.seen = 2
        /\ pending' = [pending EXCEPT ![p] = Collect(c, 3,
               [i \in 1..Len(c.data) |->
                   [comment_count |->
                       Cardinality({m \in commentCounts : m.activity_id = c.data[i].id})]
                   @@ c.data[i]])]
        /\ UNCHANGED <<store, req, resp, walk, shareLog>>

\* activities.ts:121-153: the viewer's likes and the response
FeedRespond(p) ==
    LET c == pending[p]
        userLikes == IF c.user # NoUser
                     THEN {l.activity_id : l \in {k \in SelectLikes(ClientOf(c.user), likes) :
                                                      k.user_id = c.user}}
                     ELSE {}
    IN  /\ c.op = "feed" /\ c.phase = "await" /\ c.seen = 3
        /\ pending' = [pending EXCEPT ![p] =
               Done(c, 200, [i \in 1..Len(c.data) |->
                                [is_liked |-> c.data[i].id \in userLikes] @@ c.data[i]], "")]
        /\ UNCHANGED <<store, req, resp, walk, shareLog>>

(* ---------- initial state ---------- *)
Init ==
    /\ serviceKey \in BOOLEAN
    /\ now = 1
    /\ activities = {}
    /\ likes = {}
    /\ comments = {}
    /\ follows = {}
    /\ req = NoRequest
    /\ resp = NoResponse
    /\ walk = IdleWalk
    /\ zone = StandardZone
    /\ profiles = [u \in Users |-> u]
    /\ pending = [p \in Procs |-> NoCall]
    /\ shareLog = [id \in ActivityIds |-> 0]

(* ---------- request inputs ---------- *)
CreateBodies ==
    {Body({"category", "duration_minutes"}, {}, "work", 30, NullFocus, "public"),
     Body({"category", "duration_minutes", "visibility"}, {}, "work", 30, NullFocus, "private"),
     Body({"category", "duration_minutes"}, {}, "work", 0, NullFocus, "public")}

VisibilityBodies ==
    {Body({"visibility"}, {}, "", 0, NullFocus, v) : v \in {"public", "private"}}

Filters == {"", "global", "following"}

\* (page, limit) query parameters of the feed requests
FeedPages == {<<RawAbsent, RawAbsent>>, <<RawInt(2), RawInt(1)>>}

\* the deployment of BACKEND_INITIALIZATION.md: the service role key is set
InitServiceKey == Init /\ serviceKey

(* ---------- visibility of single activities ---------- *)
Next ==
    \/ \E cred \in Credentials, b \in CreateBodies : CreateActivity(cred, b)
    \/ \E cred \in Credentials, u \in Users : Follow(cred, u)
    \/ \E cred \in Credentials, u \in Users : Unfollow(cred, u)
    \/ \E cred \in Credentials, id \in ActivityIds : GetActivity(cred, id)
    \/ Deliver

Spec == Init /\ [][Next]_vars

(* ---------- feed composition: global scope ---------- *)
\* feed requests that take the `else` branch of activities.ts:81-94
NextFeed ==
    \/ \E cred \in Credentials, b \in CreateBodies : CreateActivity(cred, b)
    \/ \E cred \in Credentials, u \in Users : Follow(cred, u)
    \/ \E cred \in Credentials, u \in Users : Unfollow(cred, u)
    \/ \E cred \in Credentials, pl \in FeedPages, rawFilter \in {"global", "following"} :
           /\ rawFilter = "following" => optionalAuth(cred) = NoUser
           /\ GetFeed(cred, pl[1], pl[2], rawFilter)
    \/ Deliver

SpecFeed == InitServiceKey /\ [][NextFeed]_vars

(* ---------- feed composition: following scope ---------- *)
\* feed requests that take the `if` branch of activities.ts:81-94
NextFollowing ==
    \/ \E cred \in Credentials, b \in CreateBodies : CreateActivity(cred, b)
    \/ \E cred \in Credentials, u \in Users : Follow(cred, u)
    \/ \E cred \in Credentials, u \in Users : Unfollow(cred, u)
    \/ \E cred \in Credentials, pl \in FeedPages :
           /\ optionalAuth(cred) # NoUser
           /\ GetFeed(cred, pl[1], pl[2], "following")
    \/ Deliver

SpecFollowing == InitServiceKey /\ [][NextFollowing]_vars

(* ---------- feed ordering ---------- *)
NextOrder ==
    \/ \E cred \in Credentials, b \in CreateBodies : CreateActivity(cred, b)
    \/ \E cred \in Credentials, id \in ActivityIds, b \in VisibilityBodies :
           UpdateActivity(cred, id, b)
    \/ Tick
    \/ \E cred \in Credentials, pl \in FeedPages, rawFilter \in Filters :
           GetFeed(cred, pl[1], pl[2], rawFilter)
    \/ Deliver

SpecOrder == Init /\ [][NextOrder]_vars

(* ---------- the visibility policy as the design states it ---------- *)
Viewers == Users \cup {NoUser}

followeeSetOfViewer(viewerId) ==
    {f.following_id : f \in {g \in follows : g.follower_id = viewerId}}

isVisible(activity, viewerId, followeeSet) ==
    \/ activity.visibility = "public"
    \/ viewerId = activity.user_id
    \/ (viewerId # NoUser /\ activity.user_id \in followeeSet)

RowIds(rows) == [i \in 1..Len(rows) |-> rows[i].id]

\* the stored activity a response row was built from
StoredRow(r) == CHOOSE a \in activities : a.id = r.id

(* ---------- C1 ---------- *)
\* C1: GET /api/activities/:id returns activity A to viewer V (anonymous
\* included) only if A is public, or V owns A, or V follows A's owner; in
\* every other case the response is 404 and carries no data.
C1_SingleRetrievalVisibility ==
    req.op = "activity" =>
        \A a \in activities :
            (a.id = req.id /\ ~isVisible(a, req.viewer, followeeSetOfViewer(req.viewer)))
                => (resp.status = 404 /\ resp.data = NoData)

(* ---------- C2 ---------- *)
\* C2: the predicate enforced on activity reads equals
\* public OR viewer = owner OR (viewer present AND owner in the viewer's
\* followee set), for every activity and every viewer; an owner always
\* reads their own private activity, and a present viewer who is neither
\* owner nor follower never reads a private one.  An authenticated
\* single-activity read succeeds exactly when the predicate holds.
C2_VisibilityPredicate ==
    /\ \A a \in activities, v \in Viewers :
           /\ ActivitiesSelectPolicy(a, v, follows)
                  <=> isVisible(a, v, followeeSetOfViewer(v))
           /\ (v = a.user_id) => ActivitiesSelectPolicy(a, v, {})
           /\ (v # NoUser /\ v # a.user_id /\ a.visibility = "private"
                  /\ a.user_id \notin followeeSetOfViewer(v))
                  => ~ActivitiesSelectPolicy(a, v, follows)
    /\ (req.op = "activity" /\ req.viewer # NoUser) =>
           (resp.status = 200 <=>
               \E a \in activities :
                   a.id = req.id /\ isVisible(a, req.viewer, followeeSetOfViewer(req.viewer)))

\* a follower has read a private activity of the user they follow
C2_Witness ==
    /\ req.op = "activity" /\ resp.status = 200 /\ req.viewer # NoUser
    /\ \E a \in activities :
           /\ a.id = req.id /\ a.visibility = "private" /\ a.user_id # req.viewer
           /\ \E o \in activities : o.visibility = "private" /\ o.user_id = req.viewer

(* ---------- C3 ---------- *)
\* C3: a feed request with scope global, or with scope following and no
\* resolved viewer, returns public activities only, and returns the
\* sequence of activities a global request returns to any viewer for the
\* same page and limit: every viewer's global request selects the same
\* activities, and the response is a page of them.
C3_GlobalFeed ==
    (req.op = "feed" /\ (req.filter = "global" \/ (req.filter = "following" /\ req.viewer = NoUser)))
        => /\ \A i \in 1..Len(resp.data) : resp.data[i].visibility = "public"
           /\ \A v \in Viewers :
                  FeedCandidates(v, "global", activities, follows)
                      = FeedCandidates(req.viewer, req.filter, activities, follows)
           /\ \E rank \in ActivityRanks :
                  LET g == FeedQuery(req.viewer, "global", req.offset, req.limit, rank,
                                     activities, follows)
                  IN  (g.error <=> resp.status = 400) /\ RowIds(g.data) = RowIds(resp.data)

\* an anonymous caller asked for the following feed, got a public activity
\* and a private activity stayed out
C3_Witness ==
    /\ req.op = "feed" /\ req.filter = "following" /\ req.viewer = NoUser
    /\ resp.status = 200 /\ Len(resp.data) > 0
    /\ \E a \in activities : a.visibility = "private"

C5_DescendingOrder ==
    req.op = "feed" =>
        \A i \in 1..(Len(resp.data) - 1) :
            resp.data[i].created_at >= resp.data[i + 1].created_at

\* a feed page with two activities created at different times
C5_Witness ==
    /\ req.op = "feed" /\ resp.status = 200 /\ Len(resp.data) >= 2
    /\ resp.data[1].created_at > resp.data[2].created_at

(* ---------- pagination parameters ---------- *)
PagingRawPages ==
    {RawAbsent, RawNaN, RawInt(0), RawInt(-1), RawInt(1), RawInt(2), RawInt(100)}

PagingRawLimits ==
    {RawAbsent, RawNaN, RawInt(0), RawInt(-5), RawInt(1), RawInt(20), RawInt(51)}

NextPaging ==
    \/ \E cred \in Credentials, b \in CreateBodies : CreateActivity(cred, b)
    \/ Tick
    \/ \E cred \in Credentials, rawPage \in PagingRawPages,
          rawLimit \in PagingRawLimits, rawFilter \in Filters :
           GetFeed(cred, rawPage, rawLimit, rawFilter)
    \/ Deliver

SpecPaging == Init /\ [][NextPaging]_vars

(* ---------- paging through an unchanged corpus ---------- *)
WalkLimits == 1..MaxActivities

NextWalk ==
    \/ ~walk.active /\ \E cred \in Credentials, b \in CreateBodies : CreateActivity(cred, b)
    \/ ~walk.active /\ Tick
    \/ \E cred \in Credentials, rawFilter \in Filters, limit \in WalkLimits :
           StartWalk(cred, rawFilter, limit)
    \/ WalkPage
    \/ EndWalk
    \/ Deliver

SpecWalk == Init /\ [][NextWalk]_vars

(* ---------- C6 ---------- *)
\* C6: over an unchanged corpus the pages 1, 2, 3, ... of a feed requested
\* with a fixed limit partition the candidate set: every candidate
\* activity appears on exactly one page, none is repeated or skipped.
C6_PagesPartition ==
    walk.done =>
        LET cands == {a.id : a \in FeedCandidates(optionalAuth(walk.cred),
                                                  FeedFilter(walk.filter), activities, follows)}
        IN  /\ Len(walk.got) = Cardinality(cands)
            /\ {walk.got[i] : i \in 1..Len(walk.got)} = cands

(* ---------- C7 ---------- *)
\* C7: whatever the raw page and limit parameters are, the effective
\* values of a feed request satisfy page >= 1 and 1 <= limit <= 50, the
\* offset is (page - 1) * limit >= 0, and the rows returned are positions
\* offset .. offset + limit - 1 of the ordered candidate set.
C7_EffectivePagination ==
    req.op = "feed" =>
        /\ req.page >= 1
        /\ req.limit >= 1 /\ req.limit <= LimitCap
        /\ req.offset = (req.page - 1) * req.limit
        /\ req.offset >= 0
        /\ \E rank \in ActivityRanks :
               LET ordered == OrderBy(FeedCandidates(req.viewer, req.filter, activities, follows),
                                      FALSE, rank)
               IN  RowIds(resp.data) =
                       RowIds(SubSeq(ordered, req.offset + 1,
                                     Min(req.offset + req.limit, Len(ordered))))

(* ---------- C8 ---------- *)
\* C8: a feed request whose offset is at or beyond the number of candidate
\* activities is answered with success and an empty sequence, never with
\* an error.
C8_OffsetBeyondRows ==
    (/\ req.op = "feed"
     /\ req.offset >= Cardinality(FeedCandidates(req.viewer, req.filter, activities, follows)))
        => (resp.status = 200 /\ resp.data = <<>>)

(* ---------- engagement ---------- *)
NextEngage ==
    \/ \E cred \in Credentials, b \in CreateBodies : CreateActivity(cred, b)
    \/ \E cred \in Credentials, id \in ActivityIds : ToggleLike(cred, id)
    \/ \E cred \in Credentials, id \in ActivityIds, textLen \in {0, 1} :
           CreateComment(cred, id, textLen)
    \/ \E cred \in Credentials, rawFilter \in Filters :
           GetFeed(cred, RawAbsent, RawAbsent, rawFilter)
    \/ \E cred \in Credentials, id \in ActivityIds : GetActivity(cred, id)
    \/ Deliver

SpecEngage == InitServiceKey /\ [][NextEngage]_vars

LikesOn(id) == {l \in likes : l.activity_id = id}
CommentsOn(id) == {c \in comments : c.activity_id = id}

(* ---------- C9 ---------- *)
\* C9: every activity of a feed response carries like_count = the number
\* of Like edges on it, comment_count = the number of Comment rows on it,
\* and is_liked = (a viewer is present and the Like edge (activity,
\* viewer) exists); 0 / 0 / false without likes and comments, and
\* is_liked false for every entry when the viewer is absent.
C9_Annotations ==
    req.op = "feed" =>
        \A i \in 1..Len(resp.data) :
            LET r == resp.data[i]
            IN  /\ {"like_count", "comment_count", "is_liked"} \subseteq DOMAIN r
                /\ r.like_count = Cardinality(LikesOn(r.id))
                /\ r.comment_count = Cardinality(CommentsOn(r.id))
                /\ r.is_liked = (/\ req.viewer # NoUser
                                 /\ LikesWithKey(likes, r.id, req.viewer) # {})
                /\ (req.viewer = NoUser) => ~r.is_liked

\* one page holds an activity the viewer liked, with a comment, next to an
\* activity without likes and comments
C9_Witness ==
    /\ req.op = "feed" /\ resp.status = 200 /\ req.viewer # NoUser
    /\ \E i, j \in 1..Len(resp.data) :
           /\ resp.data[i].is_liked /\ resp.data[i].like_count >= 1
           /\ resp.data[i].comment_count >= 1
           /\ ~resp.data[j].is_liked /\ resp.data[j].like_count = 0
           /\ resp.data[j].comment_count = 0

(* ---------- C10 ---------- *)
\* C10: for one store state, one viewer and one activity, the feed and the
\* single-activity retrieval report the same like_count, comment_count and
\* is_liked whenever both return the activity.
SameAnnotations(r, q) ==
    /\ r.like_count = q.like_count
    /\ r.comment_count = q.comment_count
    /\ r.is_liked = q.is_liked

C10_FeedMatchesSingle ==
    /\ req.op = "feed" =>
           \A i \in 1..Len(resp.data) : \A rank \in TieRanks(CommentIds) :
               LET single == ActivityHandler(req.viewer, resp.data[i].id, rank)
               IN  single.status = 200 => SameAnnotations(resp.data[i], single.data[1])
    /\ (req.op = "activity" /\ resp.status = 200) =>
           \A filter \in {"global", "following"} : \A rank \in ActivityRanks :
               LET listed == FeedHandler(req.viewer, DefaultPage, LimitCap, filter, rank)
               IN  \A j \in 1..Len(listed.data) :
                       listed.data[j].id = req.id
                           => SameAnnotations(listed.data[j], resp.data[1])

\* a single-activity response for an activity the feed also lists, liked
\* by the viewer and by someone else, with a comment
C10_Witness ==
    /\ req.op = "activity" /\ resp.status = 200 /\ req.viewer # NoUser
    /\ resp.data[1].is_liked /\ resp.data[1].comment_count >= 1
    /\ resp.data[1].like_count >= 2
    /\ \E rank \in ActivityRanks :
           \E j \in 1..Len(FeedHandler(req.viewer, DefaultPage, LimitCap, "global", rank).data) :
               FeedHandler(req.viewer, DefaultPage, LimitCap, "global", rank).data[j].id = req.id

(* ---------- profile streaks ---------- *)
\* one user records sessions while the clock moves through a window of
\* days whose lengths the local calendar fixes
InitStreak ==
    /\ serviceKey = TRUE
    /\ now = 0
    /\ activities = {}
    /\ likes = {}
    /\ comments = {}
    /\ follows = {}
    /\ req = NoRequest
    /\ resp = NoResponse
    /\ walk = IdleWalk
    /\ zone \in Zones
    /\ profiles = [u \in Users |-> u]
    /\ pending = [p \in Procs |-> NoCall]
    /\ shareLog = [id \in ActivityIds |-> 0]

SessionBody == Body({"category", "duration_minutes"}, {}, "work", 30, NullFocus, "public")

NextStreak ==
    \/ CreateActivity([t |-> "ok", u |-> 1], SessionBody)
    \/ \E t \in ClockStamps(zone) : Advance(t)
    \/ \E cred \in Credentials, key \in ProfileKeys : GetProfile(cred, key)
    \/ Deliver

SpecStreak == InitStreak /\ [][NextStreak]_vars

\* the calendar dates on which the profile of a response has activities
DatesOf(userId) ==
    {toLocaleDateString(zone, a.created_at) : a \in {r \in activities : r.user_id = userId}}

MostRecent(dates) == CHOOSE d \in dates : \A e \in dates : d >= e

\* the number of consecutive calendar dates in `dates` ending at `top`
RunLength(dates, top) ==
    CHOOSE k \in 1..(NumDays + 1) :
        /\ \A j \in 0..(k - 1) : (top - j) \in dates
        /\ (top - k) \notin dates

Today == toLocaleDateString(zone, now)

(* ---------- C11 ---------- *)
\* C11: when the most recent calendar date with an activity is today or
\* yesterday, current_streak is the length of the maximal run of
\* consecutive calendar dates ending at that date, each date counted
\* once, in calendars whose days last 23, 24 or 25 hours.
C11_StreakRun ==
    (req.op = "profile" /\ resp.status = 200 /\ DatesOf(resp.data[1].id) # {})
        => LET dates == DatesOf(resp.data[1].id)
               top == MostRecent(dates)
           IN  top \in {Today, Today - 1}
                   => resp.data[1].stats.current_streak = RunLength(dates, top)

(* ---------- C12 ---------- *)
\* C12: current_streak is 0 for a profile without activities and when the
\* most recent activity date is neither today nor yesterday, and at least
\* 1 when it is today or the calendar day before today; the date the code
\* takes for yesterday is the calendar date before today at every instant.
C12_StreakAlive ==
    /\ toLocaleDateString(zone, now - DayHours) = Today - 1
    /\ (req.op = "profile" /\ resp.status = 200)
           => LET dates == DatesOf(resp.data[1].id)
                  streak == resp.data[1].stats.current_streak
              IN  IF dates = {} THEN streak = 0
                  ELSE IF MostRecent(dates) \in {Today, Today - 1} THEN streak >= 1
                  ELSE streak = 0

(* ---------- profile statistics ---------- *)
StatsBodies ==
    {Body({"category", "duration_minutes"}, {}, "work", 45, NullFocus, "public"),
     Body({"category", "duration_minutes"}, {}, "work", 3, NullFocus, "public"),
     Body({"category", "duration_minutes"}, {}, "work", 20, NullFocus, "public"),
     Body({"category", "duration_minutes", "visibility"}, {}, "work", 45, NullFocus, "private")}

NextStats ==
    \/ \E cred \in Credentials, b \in StatsBodies : CreateActivity(cred, b)
    \/ \E cred \in Credentials, key \in ProfileKeys : GetProfile(cred, key)
    \/ Deliver

SpecStats == Init /\ [][NextStats]_vars

\* the activity list of the profile in a response: the owner's rows the
\* caller's client reads
ActivityListOf(viewerId, userId) ==
    {a \in SelectActivities(ClientOf(viewerId), activities, follows) : a.user_id = userId}

\* the minutes of the rows of a list with ids up to n
RECURSIVE MinutesUpTo(_, _)
MinutesUpTo(list, n) ==
    IF n = 0 THEN 0
    ELSE (IF \E a \in list : a.id = n
          THEN (CHOOSE a \in list : a.id = n).duration_minutes ELSE 0)
         + MinutesUpTo(list, n - 1)

ContendedIds == {1}

NextLikes ==
    \/ CreateActivity([t |-> "ok", u |-> 1], SessionBody)
    \/ Deliver
    \/ \E p \in Procs, cred \in Credentials, id \in ContendedIds : LikeCheck(p, cred, id)
    \/ \E p \in Procs : LikeWrite(p)
    \/ \E p \in Procs : Return(p)

SpecLikes == InitServiceKey /\ [][NextLikes]_vars

(* ---------- C14 ---------- *)
\* C14: in every reachable state, whatever the interleaving of like
\* toggles, the likes table holds at most one edge per (activity, liker).
C14_OneLikePerPair ==
    \A id \in ActivityIds, u \in Users : Cardinality(LikesWithKey(likes, id, u)) <= 1

\* two toggles of one viewer on one activity both saw "not liked"; one
\* inserted the edge and the other's insert was refused
C14_Witness ==
    \E p, q \in Procs :
        /\ p # q
        /\ pending[p].op = "like" /\ pending[q].op = "like"
        /\ pending[p].user = pending[q].user /\ pending[p].id = pending[q].id
        /\ pending[p].seen = 0 /\ pending[q].seen = 0
        /\ pending[p].phase = "done" /\ pending[p].status = 200
        /\ pending[q].phase = "done" /\ pending[q].error = "23505"
        /\ LikesWithKey(likes, pending[p].id, pending[p].user) # {}

(* ---------- like toggles one after another ---------- *)
NextToggle ==
    \/ \E b \in CreateBodies : CreateActivity([t |-> "ok", u |-> 1], b)
    \/ \E cred \in Credentials, id \in ActivityIds : ToggleLike(cred, id)
    \/ Deliver

SpecToggle == InitServiceKey /\ [][NextToggle]_vars

(* ---------- C15 ---------- *)
\* C15: a like toggle served after the previous request has completed,
\* by viewer V on an existing activity A, succeeds, reports the negation
\* of V's liked state of A, leaves exactly that state behind and changes
\* no other edge; so two toggles in sequence report first the negation of
\* the original state and then the original state, and restore the edge
\* set.
C15_ToggleTwice ==
    [][(req'.op = "like" /\ req'.viewer # NoUser /\ req'.id \in {a.id : a \in activities})
        => LET had == LikesWithKey(likes, req'.id, req'.viewer) # {}
           IN  /\ resp'.status = 200
               /\ resp'.data[1].liked = ~had
               /\ (LikesWithKey(likes', req'.id, req'.viewer) # {}) = ~had
               /\ likes' \ LikesWithKey(likes', req'.id, req'.viewer)
                      = likes \ LikesWithKey(likes, req'.id, req'.viewer)]_vars

\* the second of two toggles has reported "not liked" and the edge is gone
\* again, next to another viewer's like of the same activity
C15_Witness ==
    /\ req.op = "like" /\ resp.status = 200 /\ ~resp.data[1].liked
    /\ LikesWithKey(likes, req.id, req.viewer) = {}
    /\ \E l \in likes : l.activity_id = req.id

(* ---------- concurrent shares ---------- *)
NextShare ==
    \/ \E cred \in Credentials, b \in CreateBodies : CreateActivity(cred, b)
    \/ Deliver
    \/ \E p \in Procs, id \in ActivityIds : ShareRead(p, id)
    \/ \E p \in Procs : ShareWrite(p)
    \/ \E p \in Procs : Return(p)

SpecShare == InitServiceKey /\ [][NextShare]_vars

(* ---------- C16 ---------- *)
\* C16: once every share request has completed, the share_count of each
\* activity equals the number of share requests on it that were answered
\* with success (it starts at 0 and each success adds exactly one), and
\* the share_count echoed by a success is at most the stored value.
C16_ShareCount ==
    /\ (\A p \in Procs : ~(pending[p].op = "share" /\ pending[p].phase = "await"))
           => \A a \in activities : a.share_count = shareLog[a.id]
    /\ \A p \in Procs :
           (pending[p].op = "share" /\ pending[p].phase = "done" /\ pending[p].status = 200)
               => \A a \in activities :
                      a.id = pending[p].id => pending[p].data[1].share_count <= a.share_count

(* ---------- the follow graph ---------- *)
\* the :userId of a follow request: a user, or an id no profile has
FollowTargets == Users \cup {NoUser}

NextFollow ==
    \/ \E cred \in Credentials, u \in FollowTargets : Follow(cred, u)
    \/ \E cred \in Credentials, u \in FollowTargets : Unfollow(cred, u)
    \/ \E cred \in Credentials, key \in ProfileKeys : GetProfile(cred, key)
    \/ Deliver

SpecFollow == Init /\ [][NextFollow]_vars

(* ---------- C17 ---------- *)
\* C17: in every reachable state no Follow edge joins a user to
\* themselves and there is at most one edge per ordered (follower,
\* followee) pair; a request to follow oneself is rejected and leaves the
\* follows table as it was.
C17_FollowEdges ==
    /\ [](/\ \A f \in follows : f.follower_id # f.following_id
          /\ \A u, v \in Users : Cardinality(FollowsWithKey(follows, u, v)) <= 1)
    /\ [][(req'.op = "follow" /\ req'.viewer # NoUser /\ req'.viewer = req'.id)
             => (resp'.status = 400 /\ follows' = follows)]_vars

\* a second follow of the same user has been refused and the edge is there
\* once, while the opposite edge is absent
C17_Witness ==
    /\ req.op = "follow" /\ resp.status = 409
    /\ Cardinality(FollowsWithKey(follows, req.viewer, req.id)) = 1
    /\ FollowsWithKey(follows, req.id, req.viewer) = {}

(* ---------- duplicate unique edges ---------- *)
NextConflict ==
    \/ CreateActivity([t |-> "ok", u |-> 1], SessionBody)
    \/ Deliver
    \/ \E cred \in Credentials, u \in Users : Follow(cred, u)
    \/ \E p \in Procs, id \in ContendedIds : LikeCheck(p, [t |-> "ok", u |-> 1], id)
    \/ \E p \in Procs : LikeWrite(p)
    \/ \E p \in Procs, cred \in Credentials, name \in Names : UsernameCheck(p, cred, name)
    \/ \E p \in Procs : UsernameWrite(p)
    \/ \E p \in Procs : Return(p)

SpecConflict == InitServiceKey /\ [][NextConflict]_vars

(* ---------- C18 ---------- *)
\* C18: an attempt to create a duplicate unique edge is answered with 409
\* Conflict: a follow of a user already followed, a username held by
\* another profile (whether the handler's own query or the store finds
\* it), and a like insert that the store refuses as a duplicate.
C18_ConflictOnDuplicate ==
    /\ (req.op = "follow" /\ req.viewer # NoUser /\ req.viewer # req.id
           /\ resp.status # 200 /\ FollowsWithKey(follows, req.viewer, req.id) # {})
           => resp.status = 409
    /\ \A p \in Procs :
           (pending[p].phase = "done" /\ pending[p].op \in {"like", "username"}
               /\ (pending[p].error = "23505" \/ (pending[p].op = "username" /\ pending[p].seen = 1)))
               => pending[p].status = 409

(* ---------- ownership of activities and comments ---------- *)
CommentTexts == {1, 2}

NextOwner ==
    \/ \E cred \in Credentials, b \in CreateBodies : CreateActivity(cred, b)
    \/ \E cred \in Credentials, id \in ActivityIds, b \in VisibilityBodies :
           UpdateActivity(cred, id, b)
    \/ \E cred \in Credentials, id \in ActivityIds : DeleteActivity(cred, id)
    \/ \E cred \in Credentials, id \in ActivityIds, textLen \in CommentTexts :
           CreateComment(cred, id, textLen)
    \/ \E cred \in Credentials, id \in CommentIds, textLen \in CommentTexts :
           UpdateComment(cred, id, textLen)
    \/ \E cred \in Credentials, id \in CommentIds : DeleteComment(cred, id)
    \/ Deliver

SpecOwner == InitServiceKey /\ [][NextOwner]_vars

\* the fields of an activity its owner may change
Content(a) == <<a.category, a.duration_minutes, a.focus_level, a.visibility>>

ActivityTouched(a) ==
    \/ ~\E b \in activities' : b.id = a.id
    \/ \E b \in activities' : b.id = a.id /\ Content(b) # Content(a)

CommentTouched(c) ==
    \/ ~\E d \in comments' : d.id = c.id
    \/ \E d \in comments' : d.id = c.id /\ d.text # c.text

(* ---------- C19 ---------- *)
\* C19: an activity's content changes, or the activity is deleted, only
\* in a step serving an update or delete request of its owner; a comment
\* is updated or deleted only in a step serving a request of its author;
\* an update or delete aimed at another user's row changes no row.
C19_OwnerOnly ==
    [][/\ \A a \in activities :
              ActivityTouched(a)
                  => (req'.op \in {"updateActivity", "deleteActivity"}
                        /\ req'.viewer = a.user_id)
       /\ \A c \in comments :
              CommentTouched(c)
                  => (req'.op \in {"updateComment", "deleteComment"}
                        /\ req'.viewer = c.user_id)
       /\ (req'.op \in {"updateActivity", "deleteActivity"}
              /\ \E a \in activities : a.id = req'.id /\ a.user_id # req'.viewer)
              => UNCHANGED <<activities, likes, comments>>
       /\ (req'.op \in {"updateComment", "deleteComment"}
              /\ \E c \in comments : c.id = req'.id /\ c.user_id # req'.viewer)
              => UNCHANGED <<activities, likes, comments>>]_vars

(* ---------- C20 ---------- *)
\* C20: an update or delete of an activity or of a comment by a caller
\* who does not own the target, or whose target does not exist, is
\* answered 404 without data.
C20_NotFound ==
    [][/\ (req'.op \in {"updateActivity", "deleteActivity"} /\ req'.viewer # NoUser
              /\ ~\E a \in activities : a.id = req'.id /\ a.user_id = req'.viewer)
              => (resp'.status = 404 /\ resp'.data = NoData)
       /\ (req'.op \in {"updateComment", "deleteComment"} /\ req'.viewer # NoUser
              /\ ~\E c \in comments : c.id = req'.id /\ c.user_id = req'.viewer)
              => (resp'.status = 404 /\ resp'.data = NoData)]_vars

(* ---------- mutating requests without a resolved identity ---------- *)
MutatingOps ==
    {"createActivity", "updateActivity", "deleteActivity", "like",
     "createComment", "updateComment", "deleteComment", "follow", "unfollow"}

\* the callers: no credential, a token that fails verification, and the
\* token of the first user, who fills the store
AuthCredentials == {c \in Credentials : c.t = "ok" => c.u = 1}

\* every route behind requireAuth; PATCH /me is served on the first connection
NextAuth ==
    \/ \E cred \in AuthCredentials : CreateActivity(cred, SessionBody)
    \/ \E cred \in AuthCredentials, b \in VisibilityBodies :
           UpdateActivity(cred, 1, b)
    \/ \E cred \in AuthCredentials : DeleteActivity(cred, 1)
    \/ \E cred \in AuthCredentials : ToggleLike(cred, 1)
    \/ \E cred \in AuthCredentials : CreateComment(cred, 1, MinCommentLen)
    \/ \E cred \in AuthCredentials, textLen \in CommentTexts :
           UpdateComment(cred, 1, textLen)
    \/ \E cred \in AuthCredentials : DeleteComment(cred, 1)
    \/ \E cred \in AuthCredentials : Follow(cred, 2)
    \/ \E cred \in AuthCredentials : Unfollow(cred, 2)
    \/ \E cred \in AuthCredentials, name \in Names : UsernameCheck(1, cred, name)
    \/ UsernameWrite(1)
    \/ Return(1)
    \/ Deliver

SpecAuth == InitServiceKey /\ [][NextAuth]_vars

\* C21: a mutating request (create/update/delete activity, toggle like,
\* create/update/delete comment, follow, unfollow, update profile) made
\* without a resolved identity is answered 401 with no data, and the step
\* that serves it changes no table of the store.
C21_Unauthorized ==
    [][/\ (req = NoRequest /\ req'.op \in MutatingOps /\ req'.viewer = NoUser)
              => (resp'.status = 401 /\ resp'.data = NoData /\ UNCHANGED store)
       /\ \A p \in Procs :
              (pending[p] = NoCall /\ pending'[p].op = "username"
                  /\ pending'[p].user = NoUser)
              => (/\ pending'[p].phase = "done"
                  /\ pending'[p].status = 401
                  /\ pending'[p].data = NoData
                  /\ UNCHANGED store)]_vars

\* an unauthenticated comment delete aimed at an existing comment was
\* answered 401 and the comment is still stored
C21_Witness ==
    /\ req.op = "deleteComment" /\ req.viewer = NoUser
    /\ resp.status = 401
    /\ \E c \in comments : c.id = req.id

(* ---------- validation of activities and comments ---------- *)
\* durations and focus ratings at and just outside the limits of the schema
EdgeDurations == {MinDuration - 1, MinDuration}
EdgeFocus == {MinFocus - 1, MinFocus, MaxFocus, MaxFocus + 1}
EdgeTexts == {MinCommentLen - 1, MinCommentLen, MaxCommentLen, MaxCommentLen + 1}

CreateEdgeBodies ==
    {Body({"category", "duration_minutes"}, {}, "work", d, NullFocus, "public") :
         d \in EdgeDurations}
    \cup {Body({"category", "duration_minutes", "focus_level"}, {}, "work", MinDuration,
               f, "public") : f \in EdgeFocus}
    \cup {Body({"category", "duration_minutes", "focus_level"}, {"focus_level"}, "work",
               MinDuration, NullFocus, "public")}

UpdateEdgeBodies ==
    {Body({"duration_minutes"}, {}, "", d, NullFocus, "") : d \in EdgeDurations}
    \cup {Body({"focus_level"}, {}, "", 0, f, "") : f \in EdgeFocus}
    \cup {Body({"focus_level"}, {"focus_level"}, "", 0, NullFocus, "")}

NextValid ==
    \/ \E b \in CreateEdgeBodies : CreateActivity([t |-> "ok", u |-> 1], b)
    \/ \E b \in UpdateEdgeBodies : UpdateActivity([t |-> "ok", u |-> 1], 1, b)
    \/ \E textLen \in EdgeTexts : CreateComment([t |-> "ok", u |-> 2], 1, textLen)
    \/ \E textLen \in EdgeTexts : UpdateComment([t |-> "ok", u |-> 2], 1, textLen)
    \/ Deliver

SpecValid == InitServiceKey /\ [][NextValid]_vars

\* a body with a duration below 1 or a focus rating outside 1..10
OutOfRange(b) ==
    \/ /\ "duration_minutes" \in b.has /\ "duration_minutes" \notin b.nulls
       /\ b.duration_minutes < 1
    \/ /\ "focus_level" \in b.has /\ "focus_level" \notin b.nulls
       /\ (b.focus_level < 1 \/ b.focus_level > 10)

TextOutOfRange(textLen) == textLen < 1 \/ textLen > 1000

\* C22: an authenticated create or update of an activity whose body has a
\* duration below 1 or a focus rating outside 1..10, and a create or update
\* of a comment whose text has fewer than 1 or more than 1000 characters, is
\* answered 400 and changes no table; every stored activity has a duration of
\* at least 1 and a focus rating that is absent or within 1..10, and every
\* stored comment has 1 to 1000 characters.
C22_Validation ==
    /\ [](/\ \A a \in activities :
                 /\ a.duration_minutes >= 1
                 /\ (a.focus_level = NullFocus \/ (a.focus_level >= 1 /\ a.focus_level <= 10))
          /\ \A c \in comments : c.text >= 1 /\ c.text <= 1000)
    /\ [][/\ \A u \in Users, b \in CreateEdgeBodies \cup UpdateEdgeBodies :
                 OutOfRange(b)
                     => /\ CreateActivity([t |-> "ok", u |-> u], b)
                               => (resp'.status = 400 /\ UNCHANGED store)
                        /\ \A id \in ActivityIds :
                               UpdateActivity([t |-> "ok", u |-> u], id, b)
                                   => (resp'.status = 400 /\ UNCHANGED store)
          /\ \A u \in Users, textLen \in EdgeTexts :
                 TextOutOfRange(textLen)
                     => /\ \A id \in ActivityIds :
                               CreateComment([t |-> "ok", u |-> u], id, textLen)
                                   => (resp'.status = 400 /\ UNCHANGED store)
                        /\ \A id \in CommentIds :
                               UpdateComment([t |-> "ok", u |-> u], id, textLen)
                                   => (resp'.status = 400 /\ UNCHANGED store)]_vars

\* the author's update of their own stored comment was refused: only the
\* length of the text can be the reason
C22_Witness ==
    /\ req.op = "updateComment" /\ resp.status = 400
    /\ \E c \in comments : c.id = req.id /\ c.user_id = req.viewer
    /\ \E a \in activities : a.focus_level = MaxFocus

(* ---------- who can read comments ---------- *)
PrivateBody == Body({"category", "duration_minutes", "visibility"}, {}, "work", 30,
                    NullFocus, "private")

NextComments ==
    \/ \E cred \in Credentials, b \in {SessionBody, PrivateBody} : CreateActivity(cred, b)
    \/ \E cred \in Credentials, id \in ActivityIds : CreateComment(cred, id, MinCommentLen)
    \/ \E cred \in Credentials, u \in Users : Follow(cred, u)
    \/ \E cred \in Credentials, id \in ActivityIds, raw \in {RawAbsent, RawInt(1)} :
           GetComments(cred, id, raw, raw)
    \/ \E cred \in Credentials, id \in ActivityIds : GetActivity(cred, id)
    \/ Deliver

SpecComments == Init /\ [][NextComments]_vars

\* the comments a response carries: the rows of the listing, or the list
\* embedded in a single activity
ReturnedComments ==
    IF req.op = "comments" THEN {resp.data[i] : i \in 1..Len(resp.data)}
    ELSE IF req.op = "activity" /\ resp.status = 200
    THEN {resp.data[1].comments[i] : i \in 1..Len(resp.data[1].comments)}
    ELSE {}

\* C23: every comment returned by the comment listing or embedded in a
\* single-activity response belongs to an activity that is visible to the
\* viewer of the request (anonymous viewers included).
C23_CommentsFollowActivity ==
    \A c \in ReturnedComments :
        \E a \in activities :
            /\ a.id = c.activity_id
            /\ isVisible(a, req.viewer, followeeSetOfViewer(req.viewer))

(* ---------- store failures while composing a response ---------- *)
\* at most one lookup of a request fails
FaultSets == {{}} \cup {{l} : l \in Lookups}

FaultCredentials == {[t |-> "none", u |-> NoUser], [t |-> "ok", u |-> 1]}

NextFaults ==
    \/ \E u \in Users : CreateActivity([t |-> "ok", u |-> u], SessionBody)
    \/ ToggleLike([t |-> "ok", u |-> 1], 1)
    \/ CreateComment([t |-> "ok", u |-> 1], 1, MinCommentLen)
    \/ Follow([t |-> "ok", u |-> 1], 2)
    \/ \E cred \in FaultCredentials, rawFilter \in {"global", "following"},
          failed \in FaultSets :
           GetFeedWithFaults(cred, RawAbsent, RawAbsent, rawFilter, failed)
    \/ \E cred \in FaultCredentials, id \in ActivityIds, failed \in FaultSets :
           GetActivityWithFaults(cred, id, failed)
    \/ Deliver

SpecFaults == InitServiceKey /\ [][NextFaults]_vars

\* C24: a feed or single-activity request in which a store lookup that was
\* issued (follow set, activities, likes, comments, the viewer's likes) failed
\* ends in an error response, never in a success response.
C24_FailuresSurface ==
    (req.op \in {"feed", "activity"} /\ req.failed # {}) => resp.status >= 400

(* ---------- what an activity update changes ---------- *)
\* bodies with every choice of the schema's keys, and bodies that also
\* name a column the schema does not declare
PatchBodies ==
    {Body(has, {}, "study", 45, 5, "public") : has \in SUBSET SchemaKeys}
    \cup {[Body({"category"} \cup {k}, {}, "study", 45, 5, "public") EXCEPT !.extra = 2] :
              k \in {"id", "user_id", "created_at", "share_count"}}

NextPatch ==
    \/ \E b \in {SessionBody, PrivateBody} : CreateActivity([t |-> "ok", u |-> 1], b)
    \/ \E u \in Users, b \in PatchBodies : UpdateActivity([t |-> "ok", u |-> u], 1, b)
    \/ Deliver

SpecPatch == InitServiceKey /\ [][NextPatch]_vars

\* C25: a successful update of an activity leaves its id, owner, creation
\* timestamp and share counter as they were whatever the body contains, leaves
\* every mutable field that the body omits as it was (a private activity stays
\* private when visibility is omitted), and changes no other row.
C25_UpdateFrame ==
    [][\A u \in Users, id \in ActivityIds, b \in PatchBodies :
           (UpdateActivity([t |-> "ok", u |-> u], id, b) /\ resp'.status = 200)
               => \E old \in activities, new \in activities' :
                      /\ old.id = id /\ new.id = id
                      /\ new.user_id = old.user_id
                      /\ new.created_at = old.created_at
                      /\ new.share_count = old.share_count
                      /\ \A k \in SchemaKeys \ b.has : new[k] = old[k]
                      /\ activities' \ {new} = activities \ {old}
                      /\ UNCHANGED <<profiles, likes, comments, follows>>]_vars

\* a private activity whose category was changed by an update is still
\* private, with the duration it was created with
C25_Witness ==
    /\ req.op = "updateActivity" /\ resp.status = 200
    /\ \E a \in activities :
           /\ a.id = req.id /\ a.visibility = "private"
           /\ a.category = "study" /\ a.duration_minutes = 30

(* ---------- the activities of one user ---------- *)
NextListing ==
    \/ \E cred \in Credentials, b \in {SessionBody, PrivateBody} : CreateActivity(cred, b)
    \/ \E cred \in Credentials, u \in Users : Follow(cred, u)
    \/ \E cred \in Credentials, u \in Users : Unfollow(cred, u)
    \/ \E cred \in Credentials, key \in ProfileKeys, raw \in {RawAbsent, RawInt(1)} :
           GetUserActivities(cred, key, raw, raw)
    \/ Deliver

SpecListing == Init /\ [][NextListing]_vars

\* C26: every activity returned by the per-user listing is visible to the
\* viewer of the request: a private activity is returned only to its owner
\* and to followers of its owner, never to an anonymous viewer.
C26_ListingVisibility ==
    (req.op = "userActivities" /\ resp.status = 200)
        => \A i \in 1..Len(resp.data) :
               isVisible(StoredRow(resp.data[i]), req.viewer,
                         followeeSetOfViewer(req.viewer))

(* ---------- profile statistics seen by different viewers ---------- *)
NextViewers ==
    \/ \E cred \in Credentials, b \in {SessionBody, PrivateBody} : CreateActivity(cred, b)
    \/ \E cred \in Credentials, u \in Users : Follow(cred, u)
    \/ \E cred \in Credentials, key \in ProfileKeys : GetProfile(cred, key)
    \/ Deliver

SpecViewers == Init /\ [][NextViewers]_vars

\* the stats block the profile of user u would carry for viewer v in the
\* current state of the store
StatsFor(v, u) == ProfileHandler(v, [isUuid |-> TRUE, v |-> u]).data[1].stats

\* C27: the stats block of a profile response (total_sessions, total_hours,
\* current_streak) is the one every viewer - anonymous, the owner, a follower,
\* a stranger - is given for that profile in the same state of the store.
C27_StatsSameForAll ==
    (req.op = "profile" /\ resp.status = 200)
        => \A v \in Viewers : StatsFor(v, resp.data[1].id) = resp.data[1].stats

(* ---------- concurrent like toggles as a sequence of flips ---------- *)
\* whether user u likes activity id in the table lks
Liked(lks, id, u) == LikesWithKey(lks, id, u) # {}

\* C28: the toggles of one viewer on one activity that are answered with
\* success behave like flips applied one after another: the step in which
\* such a toggle writes and answers negates the liked state of the pair and
\* reports the state it leaves.  Hence after k successful toggles the state
\* is the initial one flipped k times and the reported values alternate.
C28_ToggleLinearizable ==
    [][\A p \in Procs :
           (/\ pending[p].op = "like" /\ pending[p].phase = "await"
            /\ pending'[p].phase = "done" /\ pending'[p].status = 200)
               => /\ Liked(likes', pending[p].id, pending[p].user)
                         = ~Liked(likes, pending[p].id, pending[p].user)
                  /\ pending'[p].data[1].liked
                         = Liked(likes', pending[p].id, pending[p].user)]_vars

(* ---------- follow changes and the reads that come after them ---------- *)
\* the second user writes activities; every caller follows and unfollows
\* that user and reads
NextFollowRead ==
    \/ \E b \in {SessionBody, PrivateBody} : CreateActivity([t |-> "ok", u |-> 2], b)
    \/ \E cred \in Credentials : Follow(cred, 2)
    \/ \E cred \in Credentials : Unfollow(cred, 2)
    \/ \E cred \in Credentials, rawFilter \in Filters :
           GetFeed(cred, RawAbsent, RawAbsent, rawFilter)
    \/ \E cred \in Credentials :
           GetUserActivities(cred, [isUuid |-> TRUE, v |-> 2], RawAbsent, RawAbsent)
    \/ \E cred \in Credentials, id \in ActivityIds : GetActivity(cred, id)
    \/ Deliver

SpecFollowRead == Init /\ [][NextFollowRead]_vars

\* the activities a response to a read carries
ReturnedActivities ==
    IF resp.status # 200 THEN {}
    ELSE IF req.op \in {"feed", "userActivities", "activity"}
    THEN {StoredRow(resp.data[i]) : i \in 1..Len(resp.data)}
    ELSE {}

\* the response is the whole result: first page, not filled up to the limit
CoversAll == req.page = 1 /\ Len(resp.data) < req.limit

\* C29: reads of an authenticated viewer V follow the follows table as it is
\* when they are served.  While V follows U, a personalized feed of V whose
\* page covers the whole result includes every activity of U, private ones
\* too, and V's retrieval of a private activity of U succeeds; while V does
\* not follow U, no feed, listing or single-activity response to V carries a
\* private activity of U.  A successful follow adds exactly the edge (V, U),
\* which was absent, and an unfollow removes exactly that edge, so a follow
\* and the unfollow after it leave V's followee set as it was.
C29_FollowTakesEffect ==
    /\ [](req.viewer # NoUser =>
            /\ (req.op = "feed" /\ req.filter = "following" /\ resp.status = 200
                    /\ CoversAll)
                   => \A a \in activities :
                          a.user_id \in followeeSetOfViewer(req.viewer)
                              => a \in ReturnedActivities
            /\ (req.op = "activity"
                    /\ \E a \in activities :
                           /\ a.id = req.id /\ a.visibility = "private"
                           /\ a.user_id \in followeeSetOfViewer(req.viewer))
                   => resp.status = 200
            /\ \A a \in ReturnedActivities :
                   (a.visibility = "private" /\ a.user_id # req.viewer)
                       => a.user_id \in followeeSetOfViewer(req.viewer))
    /\ [][/\ (req'.op = "follow" /\ resp'.status = 200)
                 => /\ req'.id \notin followeeSetOfViewer(req'.viewer)
                    /\ follows' \ follows
                           = FollowsWithKey(follows', req'.viewer, req'.id)
                    /\ follows \subseteq follows'
          /\ (req'.op = "unfollow" /\ resp'.status = 200)
                 => /\ follows \ follows'
                           = FollowsWithKey(follows, req'.viewer, req'.id)
                    /\ follows' \subseteq follows]_vars

\* user V follows U and V's personalized feed carries a private activity of U
C29_Witness ==
    /\ req.op = "feed" /\ req.filter = "following" /\ req.viewer # NoUser
    /\ \E a \in ReturnedActivities :
           /\ a.visibility = "private" /\ a.user_id # req.viewer
           /\ a.user_id \in followeeSetOfViewer(req.viewer)

(* ---------- reads racing with likes and comments ---------- *)
ReaderCredentials == {[t |-> "none", u |-> NoUser], [t |-> "ok", u |-> 1]}

NextRace ==
    \/ CreateActivity([t |-> "ok", u |-> 1], SessionBody)
    \/ ToggleLike([t |-> "ok", u |-> 1], 1)
    \/ CreateComment([t |-> "ok", u |-> 1], 1, MinCommentLen)
    \/ Deliver
    \/ \E p \in Procs, cred \in ReaderCredentials : ActivityLookup(p, cred, 1)
    \/ \E p \in Procs : ActivityCommentsLookup(p)
    \/ \E p \in Procs : ActivityLikesLookup(p)
    \/ \E p \in Procs : ActivityRespond(p)
    \/ \E p \in Procs, cred \in ReaderCredentials :
           FeedLookup(p, cred, RawAbsent, RawAbsent, "global")
    \/ \E p \in Procs : FeedLikesLookup(p)
    \/ \E p \in Procs : FeedCommentsLookup(p)
    \/ \E p \in Procs : FeedRespond(p)
    \/ \E p \in Procs : Return(p)

SpecRace == InitServiceKey /\ [][NextRace]_vars

\* C30: in every feed and single-activity response, whatever was written
\* between the handler's lookups, a row with is_liked = true has
\* like_count >= 1, and in a single-activity response comment_count is the
\* length of the comment list.
C30_AnnotationsConsistent ==
    \A p \in Procs :
        (pending[p].phase = "done" /\ pending[p].status = 200
            /\ pending[p].op \in {"feed", "activity"})
            => /\ \A i \in 1..Len(pending[p].data) :
                      pending[p].data[i].is_liked => pending[p].data[i].like_count >= 1
               /\ pending[p].op = "activity"
                      => pending[p].data[1].comment_count
                             = Len(pending[p].data[1].comments)

====
